---- MODULE Spec2Model ----
(***************************************************************************)
(* Model of the SRI electronic invoicing pipeline of REPUESTO-CONTROL-EC:  *)
(*   - core/control_secuencial.py : GestorSecuencial (sequential allocator)*)
(*   - core/sri.py                : access key, generar_xml_factura        *)
(*   - core/sri_ws.py             : SOAP client, procesar_comprobante      *)
(*   - core/procesamiento_sri.py  : ProcesadorFacturaElectronica           *)
(*   - core/firma_digital.py      : FirmaDigital (certificate loading)     *)
(*   - core/validacion_xsd.py     : validar_xml and its structural check   *)
(*   - ventas/views.py, models.py : crear_venta, venta_anular              *)
(* Eleven specifications share the module: SpecSec (allocator), SpecClave  *)
(* (access key), SpecProc (orchestrator, one run), SpecReintentar (its     *)
(* SOAP retries under fairness), SpecReproc (repeated runs), SpecVenta     *)
(* (concurrent crear_venta and venta_anular), SpecCert (certificate        *)
(* loading), SpecXml (XML builder), SpecNumero (formatted number), SpecXsd *)
(* (XML validation) and SpecCedula (validar_cedula on arbitrary text).     *)
(* Each one keeps the variables of the others parked at their initial      *)
(* values.                                                                 *)
(***************************************************************************)
EXTENDS Integers, Sequences, FiniteSets, TLC

VARIABLES
    \* ---- allocator (control_secuencial.py) ----
    secuencia,      \* Configuracion row: campo -> stored counter
    cache,          \* django cache: tipo -> cached value, 0 = no entry
    bloqueo,        \* holder of the row lock (select_for_update), 0 = free
    pcSec,          \* per caller: position inside obtener_sigiente_secuencial
    tipoSec,        \* per caller: tipo_comprobante of the call in flight
    nuevoSec,       \* per caller: local nuevo_secuencial
    epocaSec,       \* per caller: number of resets seen when the call started
    registro,       \* history: completed calls, in completion order
    inicialSec,     \* history: the counters at construction
    reinicios,      \* history: number of reiniciar_secuencial performed
    \* ---- access key (sri.py) ----
    entradaClave,   \* arguments of generar_clave_acceso
    reloj,          \* datetime.now(): microseconds of the current second
    claveAcceso,    \* value returned by generar_clave_acceso, <<>> before
    pcClave,        \* "inicio" before the call, "hecho" after it
    \* ---- orchestrator (procesamiento_sri.py, sri_ws.py) ----
    argsProc,       \* firmar, enviar_sri, enviar_email, config.ambiente
    pcProc,         \* position inside procesar_factura
    resultado,      \* the resultado dict of procesar_factura
    resultado_sri,  \* the resultado dict of procesar_comprobante, or Nulo
    guionAut,       \* what the authorization service answers, query by query
    intento,        \* loop index of _reintentar
    ultimo_error,   \* ultimo_error of _reintentar
    esperas,        \* history: the time.sleep() durations of the run
    xmlEnviado,     \* history: the XML documents handed to validarComprobante
    consultasAut,   \* history: authorization queries answered
    pdfGenerado,    \* history: generar_pdf returned a PDF
    emailDespachado,\* history: the email left through SMTP
    invocaciones,   \* history: per SOAP operation, the outcome of each attempt
    wsdl,           \* history: crear_cliente_sri of the run, "no" before it
    certificadoUsado,\* history: the certificate _firmar_xml met, "ninguno" before
    ventaProc,      \* the sale (venta) the current procesar_factura call is for
    corridas,       \* history: the earlier procesar_factura calls, in order
    \* ---- sale creation (ventas/views.py) ----
    pcVenta,        \* per request: position inside crear_venta
    peticion,       \* per request: its locals (config, numero, venta, ...)
    ventas,         \* the committed Venta rows, in commit order
    idVenta,        \* the id the next inserted Venta row gets
    stock,          \* per repuesto: the committed Repuesto.stock_actual
    detalles,       \* the committed DetalleVenta rows
    \* ---- certificate loading (firma_digital.py) ----
    entradaCert,    \* the .p12 file, what xmlsec makes of it, and the clock
    pcCert,         \* position inside FirmaDigital.__init__
    salidaCert,     \* the exception in flight or raised, and the signer
    \* ---- XML builder (sri.py) ----
    entradaXml,     \* the sale and the configuration given to the builder
    pcXml,          \* "inicio" before generar_xml_factura, "hecho" after it
    salidaXml,      \* what the builder returned, or that it raised
    \* ---- the stored document (ventas/models.py) ----
    documento,      \* SRI fields of the Venta row procesar_factura is called for
    \* ---- number formatting (sri.py, control_secuencial.py) ----
    entradaNumero,  \* establishment, emission point and sequential to format
    pcNumero,       \* "inicio" before the call, "hecho"/"hecho_gestor" after
    salidaNumero,   \* the formatted number, <<>> before the call
    \* ---- XSD validation (validacion_xsd.py) ----
    entradaXsd,     \* the document given to validar_xml and the schema loaded
    pcXsd,          \* "inicio" before validar_xml, "hecho" after it
    salidaXsd,      \* the (es_valido, errores) pair validar_xml returned
    \* ---- identity validation (sri.py) ----
    entradaCedula,  \* the string given to validar_cedula
    pcCedula,       \* "inicio" before validar_cedula, "hecho" after it
    salidaCedula    \* "True", "False", or the exception it raised

varsSec == <<secuencia, cache, bloqueo, pcSec, tipoSec, nuevoSec, epocaSec,
             registro, inicialSec, reinicios>>

varsClave == <<entradaClave, reloj, claveAcceso, pcClave>>

varsProc == <<argsProc, pcProc, resultado, resultado_sri, guionAut, intento,
              ultimo_error, esperas, xmlEnviado, consultasAut, pdfGenerado,
              emailDespachado, invocaciones, wsdl, certificadoUsado,
              ventaProc, corridas>>

varsVenta == <<pcVenta, peticion, ventas, idVenta, stock, detalles>>

varsCert == <<entradaCert, pcCert, salidaCert>>

varsXml == <<entradaXml, pcXml, salidaXml>>

varsDoc == <<documento>>

varsNumero == <<entradaNumero, pcNumero, salidaNumero>>

varsXsd == <<entradaXsd, pcXsd, salidaXsd>>

varsCedula == <<entradaCedula, pcCedula, salidaCedula>>

vars == <<varsSec, varsClave, varsProc, varsVenta, varsCert, varsXml, varsDoc, varsNumero, varsXsd, varsCedula>>

----------------------------------------------------------------------------
(* Bounds of the model *)
NumLlamadores == 2      \* concurrent callers of the allocator
MaxLlamadas == 3        \* completed allocator calls per behaviour
MaxReinicios == 1       \* resets per behaviour
MaxCorridas == 2        \* procesar_factura calls per behaviour
NumVentasProc == 2      \* sales procesar_factura is called for
NumPeticiones == 2      \* concurrent crear_venta requests
MaxVentasEntre == 1     \* sales created between procesar_factura calls

----------------------------------------------------------------------------
(* control_secuencial.py : GestorSecuencial *)

MAX_SECUENCIAL == 999999999
MIN_SECUENCIAL == 1

Llamadores == 1..NumLlamadores
Tipos == {"01", "04"}
Campos == {"secuencia_factura", "secuencia_nota_credito"}

\* line 74 of the source reads "tipo_comu probante"; the model reads it as
\* the parameter tipo_comprobante, the only name in scope it can stand for

\* GestorSecuencial._get_campo_secuencial: campos.get(tipo, "secuencia_factura")
_get_campo_secuencial(tipo) ==
    CASE tipo = "01" -> "secuencia_factura"
      [] tipo = "04" -> "secuencia_nota_credito"
      [] OTHER -> "secuencia_factura"

\* getattr(config, campo_secuencial, 1) or 1
secuencial_actual(seq, tipo) ==
    LET v == seq[_get_campo_secuencial(tipo)] IN IF v = 0 THEN 1 ELSE v

\* one completed call, appended to the history when the call returns or raises
Entrada(p, tipo, ok, valor, viaCache, incremento, antes, despues, cAntes, cDespues) ==
    [llamador |-> p, tipo |-> tipo, ok |-> ok, valor |-> valor,
     viaCache |-> viaCache, incremento |-> incremento,
     antes |-> antes, despues |-> despues,
     cacheAntes |-> cAntes, cacheDespues |-> cDespues,
     epocaInicio |-> IF viaCache THEN reinicios ELSE epocaSec[p],
     epocaFin |-> reinicios]

\* the allocator leaves the rest of the program alone
FueraSec == UNCHANGED <<varsClave, varsProc, varsVenta, varsCert, varsXml,
                   varsDoc, varsNumero, varsXsd, varsCedula>>

EnCurso == Cardinality({p \in Llamadores : pcSec[p] # "libre"})

\* lines 74-80: cache.get(key) is truthy -> return it, no lock, no increment
obtener_cache_acierto(p, t) ==
    /\ pcSec[p] = "libre"
    /\ Len(registro) + EnCurso < MaxLlamadas
    /\ cache[t] # 0
    /\ registro' = Append(registro,
          Entrada(p, t, TRUE, cache[t], TRUE, FALSE,
                  secuencia[_get_campo_secuencial(t)],
                  secuencia[_get_campo_secuencial(t)], cache[t], cache[t]))
    /\ FueraSec
    /\ UNCHANGED <<secuencia, cache, bloqueo, pcSec, tipoSec, nuevoSec,
                   epocaSec, inicialSec, reinicios>>

\* lines 74-84: cache miss -> enter transaction.atomic()
obtener_cache_fallo(p, t) ==
    /\ pcSec[p] = "libre"
    /\ Len(registro) + EnCurso < MaxLlamadas
    /\ cache[t] = 0
    /\ pcSec' = [pcSec EXCEPT ![p] = "select_for_update"]
    /\ tipoSec' = [tipoSec EXCEPT ![p] = t]
    /\ epocaSec' = [epocaSec EXCEPT ![p] = reinicios]
    /\ FueraSec
    /\ UNCHANGED <<secuencia, cache, bloqueo, nuevoSec, registro,
                   inicialSec, reinicios>>

\* lines 86-88: select_for_update().get(pk) blocks until the row lock is free
obtener_select_for_update(p) ==
    /\ pcSec[p] = "select_for_update"
    /\ bloqueo = 0
    /\ bloqueo' = p
    /\ pcSec' = [pcSec EXCEPT ![p] = "incrementar"]
    /\ FueraSec
    /\ UNCHANGED <<secuencia, cache, tipoSec, nuevoSec, epocaSec, registro,
                   inicialSec, reinicios>>

\* lines 121-123: the database raises inside atomic() (row missing, connection
\* lost); the call fails with ErrorSecuencial and nothing is written
obtener_error_bd(p) ==
    LET t == tipoSec[p]
        c == _get_campo_secuencial(t)
    IN  /\ pcSec[p] = "select_for_update"
        /\ pcSec' = [pcSec EXCEPT ![p] = "libre"]
        /\ registro' = Append(registro,
              Entrada(p, t, FALSE, 0, FALSE, FALSE,
                      secuencia[c], secuencia[c], cache[t], cache[t]))
        /\ FueraSec
        /\ UNCHANGED <<secuencia, cache, bloqueo, tipoSec, nuevoSec, epocaSec,
                       inicialSec, reinicios>>

\* lines 94-100: secuencial_actual > MAX_SECUENCIAL -> ErrorSecuencial,
\* the transaction rolls back and the lock is released
obtener_error_maximo(p) ==
    LET t == tipoSec[p]
        c == _get_campo_secuencial(t)
    IN  /\ pcSec[p] = "incrementar"
        /\ bloqueo = p
        /\ secuencial_actual(secuencia, t) > MAX_SECUENCIAL
        /\ bloqueo' = 0
        /\ pcSec' = [pcSec EXCEPT ![p] = "libre"]
        /\ registro' = Append(registro,
              Entrada(p, t, FALSE, 0, FALSE, FALSE,
                      secuencia[c], secuencia[c], cache[t], cache[t]))
        /\ FueraSec
        /\ UNCHANGED <<secuencia, cache, tipoSec, nuevoSec, epocaSec,
                       inicialSec, reinicios>>

\* lines 102-110: nuevo = actual + 1; save(update_fields); cache.set(key, nuevo)
obtener_incrementar(p) ==
    LET t == tipoSec[p]
        c == _get_campo_secuencial(t)
        actual == secuencial_actual(secuencia, t)
    IN  /\ pcSec[p] = "incrementar"
        /\ bloqueo = p
        /\ ~(actual > MAX_SECUENCIAL)
        /\ nuevoSec' = [nuevoSec EXCEPT ![p] = actual + 1]
        /\ secuencia' = [secuencia EXCEPT ![c] = actual + 1]
        /\ cache' = [cache EXCEPT ![t] = actual + 1]
        /\ pcSec' = [pcSec EXCEPT ![p] = "return"]
        /\ FueraSec
        /\ UNCHANGED <<bloqueo, tipoSec, epocaSec, registro, inicialSec,
                       reinicios>>

\* line 117: return nuevo_secuencial; leaving atomic() commits and unlocks
obtener_return(p) ==
    LET t == tipoSec[p]
        c == _get_campo_secuencial(t)
    IN  /\ pcSec[p] = "return"
        /\ bloqueo = p
        /\ bloqueo' = 0
        /\ pcSec' = [pcSec EXCEPT ![p] = "libre"]
        /\ registro' = Append(registro,
              Entrada(p, t, TRUE, nuevoSec[p], FALSE, TRUE,
                      nuevoSec[p] - 1, secuencia[c], 0, cache[t]))
        /\ FueraSec
        /\ UNCHANGED <<secuencia, cache, tipoSec, nuevoSec, epocaSec,
                       inicialSec, reinicios>>

\* CACHE_TIMEOUT = 300: the cache entry expires
cache_expira(t) ==
    /\ cache[t] # 0
    /\ cache' = [cache EXCEPT ![t] = 0]
    /\ FueraSec
    /\ UNCHANGED <<secuencia, bloqueo, pcSec, tipoSec, nuevoSec, epocaSec,
                   registro, inicialSec, reinicios>>

\* reiniciar_secuencial without line 248: the cache entry survives the reset
reiniciar_secuencial_sin_borrar_cache(t, nuevo_valor) ==
    /\ reinicios < MaxReinicios
    /\ bloqueo = 0
    /\ secuencia' = [secuencia EXCEPT ![_get_campo_secuencial(t)] = nuevo_valor]
    /\ reinicios' = reinicios + 1
    /\ FueraSec
    /\ UNCHANGED <<cache, bloqueo, pcSec, tipoSec, nuevoSec, epocaSec, registro,
                   inicialSec>>

\* lines 236-251: select_for_update, setattr, save, cache.delete, commit
reiniciar_secuencial(t, nuevo_valor) ==
    /\ reinicios < MaxReinicios
    /\ bloqueo = 0
    /\ secuencia' = [secuencia EXCEPT ![_get_campo_secuencial(t)] = nuevo_valor]
    /\ cache' = [cache EXCEPT ![t] = 0]
    /\ reinicios' = reinicios + 1
    /\ FueraSec
    /\ UNCHANGED <<bloqueo, pcSec, tipoSec, nuevoSec, epocaSec, registro,
                   inicialSec>>

NextSec ==
    \/ \E p \in Llamadores, t \in Tipos : obtener_cache_acierto(p, t)
    \/ \E p \in Llamadores, t \in Tipos : obtener_cache_fallo(p, t)
    \/ \E p \in Llamadores : obtener_select_for_update(p)
    \/ \E p \in Llamadores : obtener_error_bd(p)
    \/ \E p \in Llamadores : obtener_error_maximo(p)
    \/ \E p \in Llamadores : obtener_incrementar(p)
    \/ \E p \in Llamadores : obtener_return(p)
    \/ \E t \in Tipos : cache_expira(t)
    \/ \E t \in Tipos, v \in {1, 5} : reiniciar_secuencial(t, v)

----------------------------------------------------------------------------
(* Text: Python str values are sequences of one-character strings *)

Digitos == {"0", "1", "2", "3", "4", "5", "6", "7", "8", "9"}

\* int(char)
int_char(c) ==
    CASE c = "0" -> 0 [] c = "1" -> 1 [] c = "2" -> 2 [] c = "3" -> 3
      [] c = "4" -> 4 [] c = "5" -> 5 [] c = "6" -> 6 [] c = "7" -> 7
      [] c = "8" -> 8 [] c = "9" -> 9

\* str(d) for one decimal digit
str_digito(d) ==
    CASE d = 0 -> "0" [] d = 1 -> "1" [] d = 2 -> "2" [] d = 3 -> "3"
      [] d = 4 -> "4" [] d = 5 -> "5" [] d = 6 -> "6" [] d = 7 -> "7"
      [] d = 8 -> "8" [] d = 9 -> "9"

\* str(n) for a natural number
RECURSIVE str_int(_)
str_int(n) ==
    IF n < 10 THEN <<str_digito(n)>>
    ELSE Append(str_int(n \div 10), str_digito(n % 10))

\* int(s) for a string of decimal digits
RECURSIVE int_str(_)
int_str(s) ==
    IF Len(s) = 0 THEN 0
    ELSE 10 * int_str(SubSeq(s, 1, Len(s) - 1)) + int_char(s[Len(s)])

\* str.zfill(width): pad with "0" on the left, never truncates
RECURSIVE zfill(_, _)
zfill(s, width) == IF Len(s) >= width THEN s ELSE zfill(<<"0">> \o s, width)

\* s[:n]
Prefijo(s, n) == IF Len(s) <= n THEN s ELSE SubSeq(s, 1, n)

\* str.isdigit()
isdigit(s) == Len(s) > 0 /\ \A i \in 1..Len(s) : s[i] \in Digitos

----------------------------------------------------------------------------
(* sri.py : access key *)

\* the clock values and the arguments the model draws from
MaxSecuencialesClave == 3   \* how many sequentials SecuencialesClave offers

Fechas == { <<"2","2","/","0","2","/","2","0","2","6">>,
            <<"0","1","/","1","2","/","2","0","2","5">>,
            <<"3","1","/","1","0","/","1","9","9","9">> }
TiposComprobante == { <<"0","1">>, <<"0","4">> }
Rucs == { <<"1","7","9","1","2","3","4","5","6","7","0","0","1">>,
          <<"0","9","9","0","0","0","0","0","0","0","0","0","1">> }
Ambientes == { <<"1">>, <<"2">> }
Establecimientos == { <<"0","0","1">>, <<"9","9","9">> }
PuntosEmision == { <<"0","0","1">>, <<"0","1","2">> }
TodosSecuenciales == <<1, 999999999, 42, 100000, 7, 123456789>>
SecuencialesClave ==
    { TodosSecuenciales[i] : i \in 1..MaxSecuencialesClave }
TiposEmision == { <<"1">>, <<"2">> }
Relojes == {0, 5, 120, 500000, 123456, 999999}

\* calcular_digito_verificador, the loop: sum over reversed(cadena) of
\* int(char) * multiplicadores[i % 8], multiplicadores = [2,...,9]
multiplicadores == <<2, 3, 4, 5, 6, 7, 8, 9>>

RECURSIVE suma_mod11(_, _)
suma_mod11(cadena, i) ==
    \* i is the 0-based index into reversed(cadena)
    IF i >= Len(cadena) THEN 0
    ELSE int_char(cadena[Len(cadena) - i]) * multiplicadores[(i % 8) + 1]
         + suma_mod11(cadena, i + 1)

\* calcular_digito_verificador without the 11 -> 0 and 10 -> 1 mapping
calcular_digito_verificador_sin_mapeo(cadena) ==
    str_int(11 - (suma_mod11(cadena, 0) % 11))

\* calcular_digito_verificador
calcular_digito_verificador(cadena) ==
    LET suma == suma_mod11(cadena, 0)
        digito == 11 - (suma % 11)
    IN  IF digito = 11 THEN str_int(0)
        ELSE IF digito = 10 THEN str_int(1)
        ELSE str_int(digito)

\* datetime.strptime(fecha, "%d/%m/%Y").strftime("%d%m%Y"); %Y is not
\* padded by the C library, so the year is rendered with str_int
fecha_ddmmyyyy(fecha_emision) ==
    LET dia == int_str(SubSeq(fecha_emision, 1, 2))
        mes == int_str(SubSeq(fecha_emision, 4, 5))
        anio == int_str(SubSeq(fecha_emision, 7, Len(fecha_emision)))
    IN  zfill(str_int(dia), 2) \o zfill(str_int(mes), 2) \o str_int(anio)

\* str(datetime.now().timestamp()).split(".")[-1]: the fraction of the float
\* as repr prints it, microseconds without trailing zeros, "0" when whole.
\* This is repr's positional form, which it uses for every timestamp of
\* magnitude 1e-4 .. 1e16, that is for any clock later than 1970-01-01
\* 00:00:00.0001.
RECURSIVE sin_ceros_finales(_)
sin_ceros_finales(s) ==
    IF Len(s) > 1 /\ s[Len(s)] = "0"
    THEN sin_ceros_finales(SubSeq(s, 1, Len(s) - 1))
    ELSE s

fraccion_timestamp(micros) ==
    IF micros = 0 THEN <<"0">> ELSE sin_ceros_finales(zfill(str_int(micros), 6))

\* line 97: codigo_numerico = fraction[:8].zfill(8)
codigo_numerico(micros) == zfill(Prefijo(fraccion_timestamp(micros), 8), 8)

\* generar_clave_acceso with the RUC placed before the document type
generar_clave_acceso_ruc_primero(fecha_emision, tipo_comprobante, ruc, ambiente, establecimiento, punto_emision, secuencial, tipo_emision, micros) ==
    LET parte1 == fecha_ddmmyyyy(fecha_emision) \o ruc \o tipo_comprobante
                  \o ambiente \o establecimiento \o punto_emision
                  \o zfill(secuencial, 9) \o tipo_emision
                  \o codigo_numerico(micros)
    IN  parte1 \o calcular_digito_verificador(parte1)

\* generar_clave_acceso, lines 95-113
generar_clave_acceso(fecha_emision, tipo_comprobante, ruc, ambiente, establecimiento, punto_emision, secuencial, tipo_emision, micros) ==
    LET parte1 == fecha_ddmmyyyy(fecha_emision) \o tipo_comprobante \o ruc
                  \o ambiente \o establecimiento \o punto_emision
                  \o zfill(secuencial, 9) \o tipo_emision
                  \o codigo_numerico(micros)
    IN  parte1 \o calcular_digito_verificador(parte1)

\* formatear_numero_factura: f"{est}-{pto}-{str(secuencial).zfill(9)}"
formatear_numero_factura(establecimiento, punto_emision, secuencial) ==
    establecimiento \o <<"-">> \o punto_emision \o <<"-">>
    \o zfill(str_int(secuencial), 9)

FueraClave == UNCHANGED <<varsSec, varsProc, varsVenta, varsCert, varsXml,
                   varsDoc, varsNumero, varsXsd, varsCedula>>

\* the caller passes secuencial=str(secuencial) (generar_xml_factura line 136)
llamar_generar_clave_acceso ==
    /\ pcClave = "inicio"
    /\ claveAcceso' = generar_clave_acceso(
            entradaClave.fecha_emision, entradaClave.tipo_comprobante,
            entradaClave.ruc, entradaClave.ambiente,
            entradaClave.establecimiento, entradaClave.punto_emision,
            str_int(entradaClave.secuencial), entradaClave.tipo_emision, reloj)
    /\ pcClave' = "hecho"
    /\ FueraClave
    /\ UNCHANGED <<entradaClave, reloj>>

\* the clock advances before the key is generated
tic_reloj ==
    /\ pcClave = "inicio"
    /\ \E r \in Relojes : r > reloj /\ reloj' = r
    /\ FueraClave
    /\ UNCHANGED <<entradaClave, claveAcceso, pcClave>>

NextClave ==
    \/ llamar_generar_clave_acceso
    \/ tic_reloj

----------------------------------------------------------------------------
(* sri_ws.py : answers of the SRI and how the client reads them *)

Minusculas == <<"a","b","c","d","e","f","g","h","i","j","k","l","m",
                "n","o","p","q","r","s","t","u","v","w","x","y","z">>
Mayusculas == <<"A","B","C","D","E","F","G","H","I","J","K","L","M",
                "N","O","P","Q","R","S","T","U","V","W","X","Y","Z">>

\* str.upper()
upper_char(c) ==
    IF \E i \in 1..26 : Minusculas[i] = c
    THEN Mayusculas[CHOOSE i \in 1..26 : Minusculas[i] = c]
    ELSE c

upper(s) == [i \in 1..Len(s) |-> upper_char(s[i])]

\* sub in s
Contiene(sub, s) ==
    \E i \in 1..(Len(s) - Len(sub) + 1) : SubSeq(s, i, i + Len(sub) - 1) = sub

\* the str value of a sequence of characters
RECURSIVE Une(_)
Une(s) == IF Len(s) = 0 THEN "" ELSE s[1] \o Une(Tail(s))

\* class EstadoComprobante(str, Enum): a member compares equal to its value
RECIBIDA == "RECIBIDA"
DEVUELTA == "DEVUELTA"
AUTORIZADA == "AUTORIZADA"
NO_AUTORIZADA == "NO AUTORIZADA"

\* the states the two services answer with
TxtRecibida == <<"R","E","C","I","B","I","D","A">>
TxtDevuelta == <<"D","E","V","U","E","L","T","A">>
TxtAutorizado == <<"A","U","T","O","R","I","Z","A","D","O">>
TxtNoAutorizado == <<"N","O"," ","A","U","T","O","R","I","Z","A","D","O">>
TxtEnProceso == <<"E","N"," ","P","R","O","C","E","S","O">>
TxtError == <<"E","r","r","o","r">>

\* the text fragments the parsers look for
TxtAutoriz == <<"A","U","T","O","R","I","Z">>
TxtNoAutoriz == <<"N","O"," ","A","U","T","O","R","I","Z">>

\* what validarComprobante may answer: a state and the attached messages
RespuestasRecepcion ==
    { [estado |-> TxtRecibida, mensajes |-> <<>>],
      [estado |-> TxtDevuelta, mensajes |-> <<"CLAVE ACCESO REGISTRADA">>],
      [estado |-> TxtError, mensajes |-> <<"ERROR INTERNO">>] }

\* what autorizacionComprobante may answer; hay = FALSE is an answer whose
\* list of autorizaciones is empty
RespAutorizado ==
    [hay |-> TRUE, estado |-> TxtAutorizado, numeroAutorizacion |-> "N-001",
     fechaAutorizacion |-> "01/03/2026 10:00:00",
     comprobante |-> "xml_autorizado_sri", mensajes |-> <<>>]
RespNoAutorizado ==
    [hay |-> TRUE, estado |-> TxtNoAutorizado, numeroAutorizacion |-> "",
     fechaAutorizacion |-> "01/03/2026 10:00:00",
     comprobante |-> "xml_rechazado_sri",
     mensajes |-> <<"FIRMA INVALIDA">>]
RespEnProceso ==
    [hay |-> TRUE, estado |-> TxtEnProceso, numeroAutorizacion |-> "",
     fechaAutorizacion |-> "", comprobante |-> "", mensajes |-> <<>>]
RespSinAutorizaciones ==
    [hay |-> FALSE, estado |-> <<>>, numeroAutorizacion |-> "",
     fechaAutorizacion |-> "", comprobante |-> "", mensajes |-> <<>>]

\* the answers successive authorization queries get; the last one repeats
GuionesAutorizacion ==
    { <<RespAutorizado>>, <<RespNoAutorizado>>, <<RespEnProceso>>,
      <<RespSinAutorizaciones>>,
      <<RespEnProceso, RespEnProceso, RespAutorizado>>,
      <<RespEnProceso, RespNoAutorizado>> }

\* a Python None where a dict is expected
Nulo == [nulo |-> TRUE]

\* SRIWebService._parsear_respuesta_recepcion, lines 275-313
_parsear_respuesta_recepcion(respuesta) ==
    LET crudo == Une(respuesta.estado)
        estado_str == upper(respuesta.estado)
    IN  [nulo |-> FALSE,
         estado |-> IF Contiene(TxtRecibida, estado_str) THEN RECIBIDA
                    ELSE IF Contiene(TxtDevuelta, estado_str) THEN DEVUELTA
                    ELSE crudo,
         mensajes |-> respuesta.mensajes]

\* SRIWebService._parsear_respuesta_autorizacion, lines 407-468
_parsear_respuesta_autorizacion(respuesta) ==
    IF ~respuesta.hay
    THEN [nulo |-> FALSE, estado |-> "EN PROCESO", numero_autorizacion |-> "",
          fecha_autorizacion |-> "", mensajes |-> <<>>, xml |-> ""]
    ELSE LET estado == upper(respuesta.estado)
         IN  [nulo |-> FALSE,
              estado |-> IF Contiene(TxtAutoriz, estado) THEN AUTORIZADA
                         ELSE IF Contiene(TxtNoAutoriz, estado)
                              THEN NO_AUTORIZADA
                         ELSE Une(estado),
              numero_autorizacion |-> respuesta.numeroAutorizacion,
              fecha_autorizacion |-> respuesta.fechaAutorizacion,
              mensajes |-> respuesta.mensajes,
              xml |-> respuesta.comprobante]

----------------------------------------------------------------------------
(* procesamiento_sri.py : ProcesadorFacturaElectronica.procesar_factura,  *)
(* with sri_ws.procesar_comprobante and SRIWebService._reintentar inlined *)

MAX_REINTENTOS == 3
RETRY_DELAY == 2

\* the sale and the configuration of the run
FechaVenta == <<"2","2","/","0","2","/","2","0","2","6">>
RucConfig == <<"1","7","9","1","2","3","4","5","6","7","0","0","1">>
EstabConfig == <<"0","0","1">>
PtoEmisionConfig == <<"0","0","1">>
TipoEmisionConfig == <<"1">>

\* what config.certificado_path and the PKCS#12 behind it can be;
\* "sin_atributo" is core.models.Configuracion, which has no certificado_path;
\* "vencido_sin_fecha" is an expired certificate whose notAfter cannot be
\* read or parsed: _validar_vencimiento (firma_digital.py lines 175-191) only
\* logs a warning and the certificate signs
Certificados == {"sin_atributo", "no_configurado", "no_existe",
                 "clave_incorrecta", "vencido", "vencido_sin_fecha", "valido"}

\* the certificates _firmar_xml signs with
CertificadosQueFirman == {"valido", "vencido_sin_fecha"}

\* one attempt of a SOAP operation inside _reintentar and the sleep after it
Invocacion(r, espera) == [resultado |-> r, espera |-> espera]

\* the SOAP operation procesar_comprobante is in
Operacion == IF pcProc = "recepcion" THEN "recepcion" ELSE "autorizacion"

ConInvocacion(r, espera) ==
    [invocaciones EXCEPT ![Operacion] = Append(@, Invocacion(r, espera))]

\* how one SOAP attempt can fail in transport
ErroresTransporte == {"socket.timeout", "requests.Timeout",
                      "requests.ConnectionError"}

\* a step of one procesar_factura call leaves the rest of the program and
\* the record of the earlier calls alone
FueraProc == UNCHANGED <<varsSec, varsClave, varsVenta, ventaProc, corridas,
                   varsCert, varsXml, varsDoc, varsNumero, varsXsd,
                   varsCedula>>

\* lines 139-151
ResultadoInicial ==
    [success |-> FALSE, estado |-> "pendiente", clave_acceso |-> <<>>,
     numero_factura |-> <<>>, numero_autorizacion |-> "",
     fecha_autorizacion |-> "", xml |-> "", xml_firmado |-> "",
     xml_autorizado |-> "", pdf |-> FALSE, errores |-> <<>>,
     mensajes |-> <<>>]

\* lines 251-254: except Exception -> errores.append(str(e)), estado = "error"
Excepcion(res, e) ==
    [res EXCEPT !.errores = Append(@, e), !.estado = "error"]

\* lines 547-553
ResultadoSriInicial ==
    [nulo |-> FALSE, recepcion |-> Nulo, autorizacion |-> Nulo,
     estado_final |-> "PENDIENTE", errores |-> <<>>]

\* lines 576-584: except ErrorSRI / Exception inside procesar_comprobante
ErrorSri(rs, e) ==
    [rs EXCEPT !.errores = Append(@, e), !.estado_final = "ERROR"]

\* lines 154-160: self.generar_xml(venta, config) returns the XML, the key
\* built from config.secuencia_factura and the clock, and the number
paso_generar_xml ==
    /\ pcProc = "generar_xml"
    /\ resultado' =
         [resultado EXCEPT
            !.xml = "xml",
            !.clave_acceso = generar_clave_acceso(
                 FechaVenta, <<"0","1">>, RucConfig, <<argsProc.ambiente>>,
                 EstabConfig, PtoEmisionConfig,
                 str_int(secuencia["secuencia_factura"]), TipoEmisionConfig,
                 reloj),
            !.numero_factura = formatear_numero_factura(
                 EstabConfig, PtoEmisionConfig, secuencia["secuencia_factura"]),
            !.estado = "xml_generado"]
    /\ pcProc' = "validar_xsd"
    /\ FueraProc
    /\ UNCHANGED <<argsProc, resultado_sri, guionAut, intento, ultimo_error,
                   esperas, xmlEnviado, consultasAut, pdfGenerado,
                   emailDespachado, invocaciones, wsdl, certificadoUsado>>

\* line 156 raising: the builder fails on the sale's data
paso_generar_xml_falla ==
    /\ pcProc = "generar_xml"
    /\ resultado' = Excepcion(resultado, "error al generar XML")
    /\ pcProc' = "fin"
    /\ FueraProc
    /\ UNCHANGED <<argsProc, resultado_sri, guionAut, intento, ultimo_error,
                   esperas, xmlEnviado, consultasAut, pdfGenerado,
                   emailDespachado, invocaciones, wsdl, certificadoUsado>>

\* lines 165, 178: the XML is valid
paso_validar_xsd_valido ==
    /\ pcProc = "validar_xsd"
    /\ resultado' = [resultado EXCEPT !.estado = "validado"]
    /\ pcProc' = "firmar"
    /\ FueraProc
    /\ UNCHANGED <<argsProc, resultado_sri, guionAut, intento, ultimo_error,
                   esperas, xmlEnviado, consultasAut, pdfGenerado,
                   emailDespachado, invocaciones, wsdl, certificadoUsado>>

\* lines 167-170: the XML is not valid
paso_validar_xsd_invalido ==
    /\ pcProc = "validar_xsd"
    /\ resultado' = [resultado EXCEPT !.errores = Append(@, "error XSD"),
                                      !.estado = "error_validacion"]
    /\ pcProc' = "xsd_invalido"
    /\ FueraProc
    /\ UNCHANGED <<argsProc, resultado_sri, guionAut, intento, ultimo_error,
                   esperas, xmlEnviado, consultasAut, pdfGenerado,
                   emailDespachado, invocaciones, wsdl, certificadoUsado>>

\* paso_xsd_invalido_ambiente with the environments swapped: test raises,
\* production goes on
paso_xsd_invalido_ambiente_invertido ==
    /\ pcProc = "xsd_invalido"
    /\ IF argsProc.ambiente = "1"
       THEN /\ resultado' = Excepcion(resultado, "Validacion XSD fallo")
            /\ pcProc' = "fin"
       ELSE /\ resultado' = [resultado EXCEPT !.estado = "validado"]
            /\ pcProc' = "firmar"
    /\ FueraProc
    /\ UNCHANGED <<argsProc, resultado_sri, guionAut, intento, ultimo_error,
                   esperas, xmlEnviado, consultasAut, pdfGenerado,
                   emailDespachado, invocaciones, wsdl, certificadoUsado>>

\* lines 173-178: production raises ErrorValidacionXML, test goes on
paso_xsd_invalido_ambiente ==
    /\ pcProc = "xsd_invalido"
    /\ IF argsProc.ambiente # "1"
       THEN /\ resultado' = Excepcion(resultado, "Validacion XSD fallo")
            /\ pcProc' = "fin"
       ELSE /\ resultado' = [resultado EXCEPT !.estado = "validado"]
            /\ pcProc' = "firmar"
    /\ FueraProc
    /\ UNCHANGED <<argsProc, resultado_sri, guionAut, intento, ultimo_error,
                   esperas, xmlEnviado, consultasAut, pdfGenerado,
                   emailDespachado, invocaciones, wsdl, certificadoUsado>>

\* after step 3: step 4 or the simulated authorization (lines 190, 210)
DespuesDeFirmar == IF argsProc.enviar_sri THEN "crear_cliente" ELSE "simular"

\* paso_firmar that falls back to the unsigned XML when signing fails
paso_firmar_sin_abortar(certificado) ==
    /\ pcProc = "firmar"
    /\ argsProc.firmar
    /\ certificadoUsado' = certificado
    /\ IF certificado \in CertificadosQueFirman
       THEN resultado' = [resultado EXCEPT !.xml_firmado = "xml_firmado",
                                           !.estado = "firmado"]
       ELSE resultado' = [resultado EXCEPT
                            !.xml_firmado = resultado.xml,
                            !.errores = Append(@, "Error al firmar")]
    /\ pcProc' = DespuesDeFirmar
    /\ FueraProc
    /\ UNCHANGED <<argsProc, resultado_sri, guionAut, intento, ultimo_error,
                   esperas, xmlEnviado, consultasAut, pdfGenerado,
                   emailDespachado, invocaciones, wsdl>>

\* lines 181-185 and _firmar_xml, lines 273-298
paso_firmar(certificado) ==
    /\ pcProc = "firmar"
    /\ argsProc.firmar
    /\ certificadoUsado' = certificado
    /\ IF certificado \in CertificadosQueFirman
       THEN /\ resultado' = [resultado EXCEPT !.xml_firmado = "xml_firmado",
                                              !.estado = "firmado"]
            /\ pcProc' = DespuesDeFirmar
       ELSE /\ resultado' = Excepcion(resultado, "Error al firmar")
            /\ pcProc' = "fin"
    /\ FueraProc
    /\ UNCHANGED <<argsProc, resultado_sri, guionAut, intento, ultimo_error,
                   esperas, xmlEnviado, consultasAut, pdfGenerado,
                   emailDespachado, invocaciones, wsdl>>

\* lines 186-187: firmar is False, the unsigned XML goes on
paso_no_firmar ==
    /\ pcProc = "firmar"
    /\ ~argsProc.firmar
    /\ resultado' = [resultado EXCEPT !.xml_firmado = resultado.xml]
    /\ pcProc' = DespuesDeFirmar
    /\ FueraProc
    /\ UNCHANGED <<argsProc, resultado_sri, guionAut, intento, ultimo_error,
                   esperas, xmlEnviado, consultasAut, pdfGenerado,
                   emailDespachado, invocaciones, wsdl, certificadoUsado>>

\* sri_ws lines 545-553: crear_cliente_sri loads both WSDL; it stands before
\* the try, so its ErrorConexionSRI reaches _enviar_al_sri (ErrorEnvioSRI)
paso_crear_cliente_sri(conecta) ==
    /\ pcProc = "crear_cliente"
    /\ IF conecta
       THEN /\ resultado_sri' = ResultadoSriInicial
            /\ pcProc' = "recepcion"
            /\ UNCHANGED resultado
       ELSE /\ resultado' = Excepcion(resultado, "Error al enviar al SRI")
            /\ pcProc' = "fin"
            /\ UNCHANGED resultado_sri
    /\ wsdl' = IF conecta THEN "ok" ELSE "fallo"
    /\ intento' = 0
    /\ ultimo_error' = "None"
    /\ FueraProc
    /\ UNCHANGED <<argsProc, guionAut, esperas, xmlEnviado, consultasAut,
                   pdfGenerado, emailDespachado, invocaciones,
                   certificadoUsado>>

\* reintentar_espera sleeping RETRY_DELAY * intento, the 0-based loop index
reintentar_espera_indice(e) ==
    /\ pcProc \in {"recepcion", "autorizacion"}
    /\ intento < MAX_REINTENTOS - 1
    /\ ultimo_error' = e
    /\ esperas' = Append(esperas, RETRY_DELAY * intento)
    /\ intento' = intento + 1
    /\ invocaciones' = ConInvocacion(e, RETRY_DELAY * intento)
    /\ FueraProc
    /\ UNCHANGED <<argsProc, pcProc, resultado, resultado_sri, guionAut,
                   xmlEnviado, consultasAut, pdfGenerado, emailDespachado,
                   wsdl, certificadoUsado>>

\* _reintentar lines 189-208: one attempt ends in a transport error that is
\* not the last attempt; sleep RETRY_DELAY * (intento + 1) and loop
reintentar_espera(e) ==
    /\ pcProc \in {"recepcion", "autorizacion"}
    /\ intento < MAX_REINTENTOS - 1
    /\ ultimo_error' = e
    /\ esperas' = Append(esperas, RETRY_DELAY * (intento + 1))
    /\ intento' = intento + 1
    /\ invocaciones' = ConInvocacion(e, RETRY_DELAY * (intento + 1))
    /\ FueraProc
    /\ UNCHANGED <<argsProc, pcProc, resultado, resultado_sri, guionAut,
                   xmlEnviado, consultasAut, pdfGenerado, emailDespachado,
                   wsdl, certificadoUsado>>

\* _reintentar lines 189-216: the last attempt ends in a transport error;
\* ErrorTimeoutSRI or ErrorConexionSRI reaches procesar_comprobante's handler
reintentar_agotado(e) ==
    /\ pcProc \in {"recepcion", "autorizacion"}
    /\ intento = MAX_REINTENTOS - 1
    /\ ultimo_error' = e
    /\ resultado_sri' =
         ErrorSri(resultado_sri,
                  IF e = "socket.timeout" THEN "ErrorTimeoutSRI"
                  ELSE "ErrorConexionSRI")
    /\ pcProc' = "aplicar_sri"
    /\ invocaciones' = ConInvocacion(e, 0)
    /\ FueraProc
    /\ UNCHANGED <<argsProc, resultado, guionAut, intento, esperas,
                   xmlEnviado, consultasAut, pdfGenerado, emailDespachado,
                   wsdl, certificadoUsado>>

\* an attempt raises anything else (SOAP fault): no retry; enviar_comprobante
\* and autorizacion_comprobante wrap it in an ErrorSRI (lines 261, 358)
reintentar_otro_error ==
    /\ pcProc \in {"recepcion", "autorizacion"}
    /\ resultado_sri' =
         ErrorSri(resultado_sri,
                  IF pcProc = "recepcion" THEN "ErrorRecepcionSRI"
                  ELSE "ErrorAutorizacionSRI")
    /\ pcProc' = "aplicar_sri"
    /\ invocaciones' = ConInvocacion("otro_error", 0)
    /\ FueraProc
    /\ UNCHANGED <<argsProc, resultado, guionAut, intento, ultimo_error,
                   esperas, xmlEnviado, consultasAut, pdfGenerado,
                   emailDespachado, wsdl, certificadoUsado>>

\* sri_ws lines 558-565: validarComprobante answers; DEVUELTA returns at once
recepcion_respuesta(respuesta) ==
    LET recepcion == _parsear_respuesta_recepcion(respuesta)
    IN  /\ pcProc = "recepcion"
        /\ xmlEnviado' = Append(xmlEnviado, resultado.xml_firmado)
        /\ IF recepcion.estado = DEVUELTA
           THEN /\ resultado_sri' =
                     [resultado_sri EXCEPT
                        !.recepcion = recepcion,
                        !.estado_final = "DEVUELTO",
                        !.errores = Append(@, "Comprobante devuelto")]
                /\ pcProc' = "aplicar_sri"
           ELSE /\ resultado_sri' =
                     [resultado_sri EXCEPT !.recepcion = recepcion]
                /\ pcProc' = "autorizacion"
        /\ intento' = 0
        /\ ultimo_error' = "None"
        /\ invocaciones' = ConInvocacion("respuesta", 0)
        /\ FueraProc
        /\ UNCHANGED <<argsProc, resultado, guionAut, esperas, consultasAut,
                       pdfGenerado, emailDespachado, wsdl, certificadoUsado>>

\* the answer the next authorization query gets
SiguienteRespuestaAut ==
    guionAut[IF consultasAut + 1 > Len(guionAut) THEN Len(guionAut)
             ELSE consultasAut + 1]

\* sri_ws lines 569-572: one autorizacionComprobante query, no poll
autorizacion_respuesta ==
    LET autorizacion == _parsear_respuesta_autorizacion(SiguienteRespuestaAut)
    IN  /\ pcProc = "autorizacion"
        /\ consultasAut' = consultasAut + 1
        /\ resultado_sri' =
             [resultado_sri EXCEPT !.autorizacion = autorizacion,
                                   !.estado_final = autorizacion.estado]
        /\ pcProc' = "aplicar_sri"
        /\ invocaciones' = ConInvocacion("respuesta", 0)
        /\ FueraProc
        /\ UNCHANGED <<argsProc, resultado, guionAut, intento, ultimo_error,
                       esperas, xmlEnviado, pdfGenerado, emailDespachado,
                       wsdl, certificadoUsado>>

\* lines 196-209: copy the result of procesar_comprobante; a None under
\* "autorizacion" makes .get raise AttributeError after estado was assigned
paso_aplicar_resultado_sri ==
    LET conEstado == [resultado EXCEPT !.estado = resultado_sri.estado_final]
        aut == resultado_sri.autorizacion
    IN  /\ pcProc = "aplicar_sri"
        /\ IF aut.nulo
           THEN /\ resultado' = Excepcion(conEstado, "AttributeError")
                /\ pcProc' = "fin"
           ELSE /\ resultado' =
                     [conEstado EXCEPT
                        !.numero_autorizacion = aut.numero_autorizacion,
                        !.fecha_autorizacion = aut.fecha_autorizacion,
                        !.errores = @ \o resultado_sri.errores,
                        !.xml_autorizado =
                            IF aut.xml # "" THEN aut.xml ELSE @]
                /\ pcProc' = "pdf"
        /\ FueraProc
        /\ UNCHANGED <<argsProc, resultado_sri, guionAut, intento,
                       ultimo_error, esperas, xmlEnviado, consultasAut,
                       pdfGenerado, emailDespachado, invocaciones, wsdl, certificadoUsado>>

\* lines 210-218: enviar_sri is False; the test environment simulates the
\* authorization, production leaves the state as it is
paso_simular_autorizacion ==
    /\ pcProc = "simular"
    /\ resultado' =
         IF argsProc.ambiente = "1"
         THEN [resultado EXCEPT
                 !.estado = "autorizado",
                 !.numero_autorizacion = Une(resultado.clave_acceso),
                 !.fecha_autorizacion = "now",
                 !.xml_autorizado = resultado.xml_firmado]
         ELSE resultado
    /\ pcProc' = "pdf"
    /\ FueraProc
    /\ UNCHANGED <<argsProc, resultado_sri, guionAut, intento, ultimo_error,
                   esperas, xmlEnviado, consultasAut, pdfGenerado,
                   emailDespachado, invocaciones, wsdl, certificadoUsado>>

\* paso_generar_pdf without the try of lines 222-227: the exception of
\* generar_pdf reaches the handler of procesar_factura
paso_generar_pdf_sin_capturar(ok) ==
    /\ pcProc = "pdf"
    /\ IF ok
       THEN /\ resultado' = [resultado EXCEPT !.pdf = TRUE]
            /\ pdfGenerado' = TRUE
            /\ pcProc' = "email"
       ELSE /\ resultado' = Excepcion(resultado, "PDF no generado")
            /\ pcProc' = "fin"
            /\ UNCHANGED pdfGenerado
    /\ FueraProc
    /\ UNCHANGED <<argsProc, resultado_sri, guionAut, intento, ultimo_error,
                   esperas, xmlEnviado, consultasAut, emailDespachado,
                   invocaciones, wsdl, certificadoUsado>>

\* lines 221-227: generar_pdf returns the bytes or raises
paso_generar_pdf(ok) ==
    /\ pcProc = "pdf"
    /\ IF ok
       THEN /\ resultado' = [resultado EXCEPT !.pdf = TRUE]
            /\ pdfGenerado' = TRUE
       ELSE /\ resultado' =
                 [resultado EXCEPT !.mensajes = Append(@, "PDF no generado")]
            /\ UNCHANGED pdfGenerado
    /\ pcProc' = "email"
    /\ FueraProc
    /\ UNCHANGED <<argsProc, resultado_sri, guionAut, intento, ultimo_error,
                   esperas, xmlEnviado, consultasAut, emailDespachado, invocaciones, wsdl, certificadoUsado>>

\* what enviar_comprobante_electronico can do: send, return False (no
\* address, SMTP not configured, ErrorEmail) or raise
ResultadosEmail == {"enviado", "False", "excepcion"}

\* lines 230-241 and _enviar_email_cliente, lines 342-346: the helper turns
\* every exception into False and the caller ignores the value returned
paso_enviar_email(r) ==
    /\ pcProc = "email"
    /\ argsProc.enviar_email /\ resultado.pdf
    /\ emailDespachado' = (r = "enviado")
    /\ resultado' = [resultado EXCEPT !.mensajes = Append(@, "Email enviado")]
    /\ pcProc' = "exito"
    /\ FueraProc
    /\ UNCHANGED <<argsProc, resultado_sri, guionAut, intento, ultimo_error,
                   esperas, xmlEnviado, consultasAut, pdfGenerado,
                   invocaciones, wsdl, certificadoUsado>>

\* line 230 false: no email step
paso_sin_email ==
    /\ pcProc = "email"
    /\ ~(argsProc.enviar_email /\ resultado.pdf)
    /\ pcProc' = "exito"
    /\ FueraProc
    /\ UNCHANGED <<argsProc, resultado, resultado_sri, guionAut, intento,
                   ultimo_error, esperas, xmlEnviado, consultasAut,
                   pdfGenerado, emailDespachado, invocaciones, wsdl, certificadoUsado>>

\* line 244: success = (estado == "autorizado")
paso_determinar_exito ==
    /\ pcProc = "exito"
    /\ resultado' =
         [resultado EXCEPT !.success = (resultado.estado = "autorizado")]
    /\ pcProc' = "fin"
    /\ FueraProc
    /\ UNCHANGED <<argsProc, resultado_sri, guionAut, intento, ultimo_error,
                   esperas, xmlEnviado, consultasAut, pdfGenerado,
                   emailDespachado, invocaciones, wsdl, certificadoUsado>>

NextProc ==
    \/ paso_generar_xml
    \/ paso_generar_xml_falla
    \/ paso_validar_xsd_valido
    \/ paso_validar_xsd_invalido
    \/ paso_xsd_invalido_ambiente
    \/ \E c \in Certificados : paso_firmar(c)
    \/ paso_no_firmar
    \/ \E conecta \in BOOLEAN : paso_crear_cliente_sri(conecta)
    \/ \E e \in ErroresTransporte : reintentar_espera(e)
    \/ \E e \in ErroresTransporte : reintentar_agotado(e)
    \/ reintentar_otro_error
    \/ \E r \in RespuestasRecepcion : recepcion_respuesta(r)
    \/ autorizacion_respuesta
    \/ paso_aplicar_resultado_sri
    \/ paso_simular_autorizacion
    \/ \E ok \in BOOLEAN : paso_generar_pdf(ok)
    \/ \E r \in ResultadosEmail : paso_enviar_email(r)
    \/ paso_sin_email
    \/ paso_determinar_exito

----------------------------------------------------------------------------
(* procesar_factura called again.  The method returns its resultado dict   *)
(* and stores nothing: neither the sale nor the configuration is written,  *)
(* and it reads no earlier outcome (lines 139-161).                        *)

VentasProc == 1..NumVentasProc

\* what the caller holds of a call that returned
CorridaTerminada ==
    [venta |-> ventaProc, estado |-> resultado.estado,
     success |-> resultado.success,
     clave_acceso |-> resultado.clave_acceso,
     numero_factura |-> resultado.numero_factura]

\* lines 112-151: a further call, for the same sale or another one, with the
\* same flags and configuration, at clock value r; every local starts afresh
procesar_factura_otra_vez(v, r) ==
    /\ pcProc = "fin"
    /\ Len(corridas) < MaxCorridas - 1
    /\ corridas' = Append(corridas, CorridaTerminada)
    /\ ventaProc' = v
    /\ reloj' = r
    /\ pcProc' = "generar_xml"
    /\ resultado' = ResultadoInicial
    /\ resultado_sri' = Nulo
    /\ intento' = 0
    /\ ultimo_error' = "None"
    /\ esperas' = <<>>
    /\ xmlEnviado' = <<>>
    /\ consultasAut' = 0
    /\ pdfGenerado' = FALSE
    /\ emailDespachado' = FALSE
    /\ invocaciones' = [recepcion |-> <<>>, autorizacion |-> <<>>]
    /\ wsdl' = "no"
    /\ certificadoUsado' = "ninguno"
    /\ UNCHANGED <<varsSec, varsVenta, entradaClave, claveAcceso, pcClave,
                   argsProc, guionAut, varsCert, varsXml, varsDoc,
                   varsNumero, varsXsd, varsCedula>>

\* Configuracion.get_siguiente_secuencial, run by the creation of another
\* sale between two procesar_factura calls: the stored counter goes up by 1
otra_venta_toma_secuencial ==
    /\ pcProc = "fin"
    /\ Len(corridas) < MaxCorridas - 1
    /\ secuencia["secuencia_factura"]
         < inicialSec["secuencia_factura"] + MaxVentasEntre
    /\ secuencia' = [secuencia EXCEPT !["secuencia_factura"] = @ + 1]
    /\ UNCHANGED <<cache, bloqueo, pcSec, tipoSec, nuevoSec, epocaSec,
                   registro, inicialSec, reinicios, varsClave, varsProc,
                   varsVenta, varsCert, varsXml, varsDoc, varsNumero,
                   varsXsd, varsCedula>>

NextReproc ==
    \/ NextProc
    \/ \E v \in VentasProc, r \in {5, 123456} : procesar_factura_otra_vez(v, r)
    \/ otra_venta_toma_secuencial

----------------------------------------------------------------------------
(* ventas/views.py : crear_venta, one request per process, all inside one  *)
(* transaction.atomic() on PostgreSQL (settings.py line 66, READ COMMITTED):*)
(* a request reads committed rows only, its UPDATE of the Configuracion    *)
(* row holds the row lock until it commits or rolls back.                  *)

Peticiones == 1..NumPeticiones

\* str.lower()
lower_char(c) ==
    IF \E i \in 1..26 : Mayusculas[i] = c
    THEN Minusculas[CHOOSE i \in 1..26 : Mayusculas[i] = c]
    ELSE c

lower(s) == [i \in 1..Len(s) |-> lower_char(s[i])]

\* Configuracion.generar_numero_factura(secuencial), models.py line 190
generar_numero_factura(secuencial) ==
    EstabConfig \o <<"-">> \o PtoEmisionConfig \o <<"-">>
    \o zfill(str_int(secuencial), 9)

\* no Venta object yet
SinVenta ==
    [id |-> 0, numero |-> 0, numero_factura |-> <<>>, secuencia_factura |-> 0,
     clave_acceso |-> <<>>, estado_sri |-> "pendiente",
     estado |-> "pendiente",
     xml_secuencial |-> <<>>, xml_numero_factura |-> <<>>]

\* inventario/models.py: the Repuesto rows
Repuestos == {"r1", "r2"}

\* one entry of request.POST.getlist("items"): "repuesto_id,cantidad,precio"
Item(repuesto, cantidad) == [repuesto |-> repuesto, cantidad |-> cantidad]

\* the item lists a request posts
ListasItems ==
    { <<>>,
      <<Item("r1", 1)>>,
      <<Item("r1", 1), Item("r2", 1)>>,
      <<Item("r1", 1), Item("r2", 2)>>,
      <<Item("r2", 2), Item("r1", 1)>>,
      <<Item("r1", 2), Item("r1", 1)>> }

\* a Repuesto row the transaction has not written
SinEscribir == 0 - 1

\* the locals of a request: config is the in-memory config.secuencia_factura,
\* escritura its uncommitted UPDATE of the Configuracion row (0 = none),
\* stock its uncommitted UPDATEs of Repuesto rows, detalles its uncommitted
\* DetalleVenta rows
PeticionInicial ==
    [config |-> 0, numero |-> 0, secuencial |-> 0, escritura |-> 0,
     venta |-> SinVenta, salida |-> "",
     items |-> <<>>, indice |-> 0,
     stock |-> [r \in Repuestos |-> SinEscribir], detalles |-> <<>>]

FueraVenta == UNCHANGED <<cache, bloqueo, pcSec, tipoSec, nuevoSec, epocaSec,
                          registro, inicialSec, reinicios, varsClave, varsProc,
                          varsCert, varsXml, varsDoc, varsNumero, varsXsd,
                          varsCedula>>

\* an exception leaves atomic(): the transaction rolls back, line 201 reports
Rollback(p) ==
    /\ peticion' = [peticion EXCEPT ![p].escritura = 0, ![p].venta = SinVenta,
                                    ![p].salida = "error",
                                    ![p].stock =
                                        [r \in Repuestos |-> SinEscribir],
                                    ![p].detalles = <<>>]
    /\ pcVenta' = [pcVenta EXCEPT ![p] = "fin"]

\* line 86: Configuracion.get_config() loads the committed row
crear_get_config(p) ==
    /\ pcVenta[p] = "inicio"
    /\ peticion' = [peticion EXCEPT ![p].config = secuencia["secuencia_factura"]]
    /\ pcVenta' = [pcVenta EXCEPT ![p] = "numero"]
    /\ FueraVenta
    /\ UNCHANGED <<secuencia, ventas, idVenta, stock, detalles>>

\* lines 110-111: numero from the id of the last committed Venta
crear_numero(p) ==
    LET ultimo == IF Len(ventas) = 0 THEN 0
                  ELSE CHOOSE m \in { ventas[i].id : i \in 1..Len(ventas) } :
                          \A i \in 1..Len(ventas) : ventas[i].id <= m
    IN  /\ pcVenta[p] = "numero"
        /\ peticion' = [peticion EXCEPT ![p].numero = ultimo + 1]
        /\ pcVenta' = [pcVenta EXCEPT ![p] = "secuencial"]
        /\ FueraVenta
        /\ UNCHANGED <<secuencia, ventas, idVenta, stock, detalles>>

\* line 114 and Configuracion.get_siguiente_secuencial, models.py 170-184:
\* seq = self.secuencia_factura; self.secuencia_factura = seq + 1;
\* save(update_fields) waits for the row lock; return seq
crear_get_siguiente_secuencial(p) ==
    LET seq == peticion[p].config
    IN  /\ pcVenta[p] = "secuencial"
        /\ \A q \in Peticiones \ {p} : peticion[q].escritura = 0
        /\ peticion' = [peticion EXCEPT ![p].config = seq + 1,
                                        ![p].escritura = seq + 1,
                                        ![p].secuencial = seq]
        /\ pcVenta' = [pcVenta EXCEPT ![p] = "insertar"]
        /\ FueraVenta
        /\ UNCHANGED <<secuencia, ventas, idVenta, stock, detalles>>

\* lines 115-134: Venta.objects.create; numero is unique (ventas/models.py
\* line 58), a committed row with the same numero raises IntegrityError
crear_insertar(p) ==
    /\ pcVenta[p] = "insertar"
    /\ IF \E i \in 1..Len(ventas) : ventas[i].numero = peticion[p].numero
       THEN /\ Rollback(p)
            /\ UNCHANGED idVenta
       ELSE /\ peticion' =
                 [peticion EXCEPT ![p].venta =
                    [SinVenta EXCEPT
                       !.id = idVenta,
                       !.numero = peticion[p].numero,
                       !.numero_factura =
                           generar_numero_factura(peticion[p].secuencial),
                       !.secuencia_factura = peticion[p].secuencial,
                       !.estado = "completada"]]
            /\ idVenta' = idVenta + 1
            /\ pcVenta' = [pcVenta EXCEPT ![p] = "items"]
    /\ FueraVenta
    /\ UNCHANGED <<secuencia, ventas, stock, detalles>>

\* what Repuesto.objects.get(id) returns inside the transaction: the row as
\* the transaction wrote it, otherwise the committed row
StockVisto(p, r) ==
    IF peticion[p].stock[r] # SinEscribir THEN peticion[p].stock[r]
    ELSE stock[r]

\* the commit of a transaction puts its Repuesto updates in the table
StockConfirmado(p) == [r \in Repuestos |-> StockVisto(p, r)]

\* lines 136-138: items = request.POST.getlist("items")
crear_items(p, items) ==
    /\ pcVenta[p] = "items"
    /\ peticion' = [peticion EXCEPT ![p].items = items, ![p].indice = 1]
    /\ pcVenta' = [pcVenta EXCEPT ![p] = IF Len(items) = 0 THEN "iva"
                                        ELSE "item"]
    /\ FueraVenta
    /\ UNCHANGED <<secuencia, ventas, idVenta, stock, detalles>>

\* lines 140-166, one turn of the loop.  "excepcion" is a malformed item or
\* a missing Repuesto: the exception leaves atomic().  Lines 148-154, stock
\* too low: venta.delete() (the DetalleVenta rows go with it, on_delete
\* CASCADE) and a plain return, so atomic() commits what was written so far.
\* Lines 156-166 otherwise: the stock is lowered and saved, the line created.
crear_item(p, r) ==
    LET item == peticion[p].items[peticion[p].indice]
        repuesto == item.repuesto
        cantidad == item.cantidad
    IN  /\ pcVenta[p] = "item"
        /\ CASE r = "excepcion" ->
                  /\ Rollback(p)
                  /\ UNCHANGED <<secuencia, stock>>
             [] r = "ok" /\ StockVisto(p, repuesto) < cantidad ->
                  /\ secuencia' = [secuencia EXCEPT
                         !["secuencia_factura"] = peticion[p].escritura]
                  /\ stock' = StockConfirmado(p)
                  /\ peticion' = [peticion EXCEPT
                         ![p].escritura = 0,
                         ![p].venta = SinVenta,
                         ![p].salida = "stock",
                         ![p].stock = [x \in Repuestos |-> SinEscribir],
                         ![p].detalles = <<>>]
                  /\ pcVenta' = [pcVenta EXCEPT ![p] = "fin"]
             [] r = "ok" /\ ~(StockVisto(p, repuesto) < cantidad) ->
                  /\ \A q \in Peticiones \ {p} :
                         peticion[q].stock[repuesto] = SinEscribir
                  /\ peticion' = [peticion EXCEPT
                         ![p].stock[repuesto] =
                             StockVisto(p, repuesto) - cantidad,
                         ![p].detalles = Append(@,
                             [venta |-> peticion[p].venta.id,
                              repuesto |-> repuesto, cantidad |-> cantidad]),
                         ![p].indice = @ + 1]
                  /\ pcVenta' = [pcVenta EXCEPT ![p] =
                         IF peticion[p].indice = Len(peticion[p].items)
                         THEN "iva" ELSE "item"]
                  /\ UNCHANGED <<secuencia, stock>>
        /\ FueraVenta
        /\ UNCHANGED <<ventas, idVenta, detalles>>

\* lines 168-178: Decimal(str(config.iva_tarifa)).  views.py and seed.py
\* name the rate iva_tarifa, core/models.py declares it iva_tarifa_12: with
\* that class the attribute does not resolve, AttributeError leaves atomic()
\* and the transaction rolls back
crear_calcular_iva(p, resuelve) ==
    /\ pcVenta[p] = "iva"
    /\ IF resuelve
       THEN /\ pcVenta' = [pcVenta EXCEPT ![p] = "xml"]
            /\ UNCHANGED peticion
       ELSE Rollback(p)
    /\ FueraVenta
    /\ UNCHANGED <<secuencia, ventas, idVenta, stock, detalles>>

\* lines 181-193: generar_xml_factura(venta, config) reads the in-memory
\* config.secuencia_factura (sri.py line 128); the key is stored with the
\* simulated state; any exception is swallowed (except: pass)
crear_generar_xml(p, ok) ==
    LET secuencial == peticion[p].config
        clave_acceso == generar_clave_acceso(
             FechaVenta, <<"0","1">>, RucConfig, <<"1">>, EstabConfig,
             PtoEmisionConfig, str_int(secuencial), TipoEmisionConfig, reloj)
    IN  /\ pcVenta[p] = "xml"
        /\ peticion' =
             IF ok
             THEN [peticion EXCEPT
                     ![p].venta.clave_acceso = clave_acceso,
                     ![p].venta.estado_sri = Une(lower(TxtAutorizado)),
                     ![p].venta.xml_secuencial = zfill(str_int(secuencial), 9),
                     ![p].venta.xml_numero_factura =
                         formatear_numero_factura(EstabConfig, PtoEmisionConfig,
                                                  secuencial)]
             ELSE peticion
        /\ pcVenta' = [pcVenta EXCEPT ![p] = "commit"]
        /\ FueraVenta
        /\ UNCHANGED <<secuencia, ventas, idVenta, stock, detalles>>

\* lines 195-199: return inside atomic(): the transaction commits
crear_commit(p) ==
    /\ pcVenta[p] = "commit"
    /\ ventas' = Append(ventas, peticion[p].venta)
    /\ secuencia' = [secuencia EXCEPT
                       !["secuencia_factura"] = peticion[p].escritura]
    /\ stock' = StockConfirmado(p)
    /\ detalles' = detalles \o peticion[p].detalles
    /\ peticion' = [peticion EXCEPT
                       ![p].escritura = 0,
                       ![p].salida = "creada",
                       ![p].stock = [r \in Repuestos |-> SinEscribir],
                       ![p].detalles = <<>>]
    /\ pcVenta' = [pcVenta EXCEPT ![p] = "fin"]
    /\ FueraVenta
    /\ UNCHANGED idVenta

\* the quantity the DetalleVenta rows of sale id hold of repuesto r
RECURSIVE CantidadVendida(_, _, _)
CantidadVendida(id, r, k) ==
    IF k = 0 THEN 0
    ELSE CantidadVendida(id, r, k - 1)
         + (IF detalles[k].venta = id /\ detalles[k].repuesto = r
            THEN detalles[k].cantidad ELSE 0)

\* venta_anular, lines 223-244, a POST for the committed sale ventas[i].  A
\* sale already ANULADA is refused and nothing is written (lines 228-230).
\* Otherwise, in one transaction, every line's quantity goes back to the
\* stock of its repuesto and the sale is saved with estado ANULADA and
\* estado_sri "anulada", whatever estado_sri it had.
venta_anular(i) ==
    /\ i \in 1..Len(ventas)
    /\ ventas[i].estado # "anulada"
    /\ \A q \in Peticiones, r \in Repuestos :
          CantidadVendida(ventas[i].id, r, Len(detalles)) > 0
              => peticion[q].stock[r] = SinEscribir
    /\ stock' = [r \in Repuestos |->
                    stock[r] + CantidadVendida(ventas[i].id, r, Len(detalles))]
    /\ ventas' = [ventas EXCEPT ![i].estado = "anulada",
                                ![i].estado_sri = "anulada"]
    /\ FueraVenta
    /\ UNCHANGED <<secuencia, pcVenta, peticion, idVenta, detalles>>

NextVenta ==
    \/ \E p \in Peticiones : crear_get_config(p)
    \/ \E p \in Peticiones : crear_numero(p)
    \/ \E p \in Peticiones : crear_get_siguiente_secuencial(p)
    \/ \E p \in Peticiones : crear_insertar(p)
    \/ \E p \in Peticiones, items \in ListasItems : crear_items(p, items)
    \/ \E p \in Peticiones, r \in {"ok", "excepcion"} : crear_item(p, r)
    \/ \E p \in Peticiones, resuelve \in BOOLEAN :
          crear_calcular_iva(p, resuelve)
    \/ \E p \in Peticiones, ok \in BOOLEAN : crear_generar_xml(p, ok)
    \/ \E p \in Peticiones : crear_commit(p)
    \/ \E i \in 1..NumPeticiones : venta_anular(i)

----------------------------------------------------------------------------
(* firma_digital.py : FirmaDigital.__init__ and _cargar_certificado       *)

\* an instant: a date as the number YYYYMMDD and a time of day as HHMMSS
Instante(fecha, hora) == [fecha |-> fecha, hora |-> hora]

\* a < b for two instants
Antes(a, b) == a.fecha < b.fecha \/ (a.fecha = b.fecha /\ a.hora < b.hora)

\* a certificate: the instant its validity ends and what
\* self._certificado.get("notAfter") gives for it; lee = FALSE is an object
\* without a usable get (the call raises)
Cert(vence, lee, texto) == [vence |-> vence, lee |-> lee, texto |-> texto]

\* the certificates a .p12 file can hold: notAfter as GeneralizedTime
\* (YYYYMMDDHHMMSSZ), as UTCTime (YYMMDDHHMMSSZ), as text, absent, unreadable
CertificadosP12 ==
    { Cert(Instante(20200101, 0), TRUE, <<"2","0","2","0","0","1","0","1","0","0","0","0","0","0","Z">>),
      Cert(Instante(20991231, 235959), TRUE, <<"2","0","9","9","1","2","3","1","2","3","5","9","5","9","Z">>),
      Cert(Instante(20261104, 235959), TRUE, <<"2","0","2","6","1","1","0","4","2","3","5","9","5","9","Z">>),
      Cert(Instante(20210105, 120000), TRUE, <<"2","1","0","1","0","5","1","2","0","0","0","0","Z">>),
      Cert(Instante(20201231, 235959), TRUE, <<"2","0","1","2","3","1","2","3","5","9","5","9","Z">>),
      Cert(Instante(20200101, 0), TRUE, <<"J","a","n"," "," ","1"," ","0","0",":","0","0",":","0","0"," ","2","0","2","0"," ","G","M","T">>),
      Cert(Instante(20200101, 0), TRUE, <<>>),
      Cert(Instante(20200101, 0), FALSE, <<>>) }

\* datetime.now()
Ahoras == { Instante(20261104, 100000), Instante(20200101, 100000),
            Instante(20191231, 100000) }

\* what xmlsec.Key.from_memory(p12, PKCS12, contrasena) does: a key, None,
\* or an exception whose text does or does not name the password
ResultadosClave == {"clave", "None", "error_password", "error_otro"}

EsBisiesto(a) == (a % 4 = 0 /\ a % 100 # 0) \/ a % 400 = 0

DiasDelMes(a, m) ==
    IF m = 2 THEN (IF EsBisiesto(a) THEN 29 ELSE 28)
    ELSE IF m \in {4, 6, 9, 11} THEN 30 ELSE 31

\* _parsear_fecha_certificado, lines 204-209: drop a final "Z", then
\* strptime(fecha_str[:8], "%Y%m%d"); the date as YYYYMMDD, 0 for None.
\* Eight characters parse only as four digits of year, two of month and
\* two of day.
_parsear_fecha_certificado(fecha_str) ==
    LET sinZ == IF Len(fecha_str) > 0 /\ fecha_str[Len(fecha_str)] = "Z"
                THEN SubSeq(fecha_str, 1, Len(fecha_str) - 1)
                ELSE fecha_str
        ocho == Prefijo(sinZ, 8)
    IN  IF Len(ocho) = 8 /\ isdigit(ocho)
        THEN LET a == int_str(SubSeq(ocho, 1, 4))
                 m == int_str(SubSeq(ocho, 5, 6))
                 d == int_str(SubSeq(ocho, 7, 8))
             IN  IF a >= 1 /\ m \in 1..12 /\ d >= 1 /\ d <= DiasDelMes(a, m)
                 THEN a * 10000 + m * 100 + d
                 ELSE 0
        ELSE 0

\* _validar_vencimiento, lines 172-191: TRUE when CertificadoVencidoError
\* leaves the method; every other exception is logged and dropped
_validar_vencimiento(cert, ahora) ==
    /\ cert.lee
    /\ cert.texto # <<>>
    /\ _parsear_fecha_certificado(cert.texto) # 0
    /\ Antes(Instante(_parsear_fecha_certificado(cert.texto), 0), ahora)

FueraCert == UNCHANGED <<varsSec, varsClave, varsProc, varsVenta, varsXml,
                         varsDoc, varsNumero, varsXsd, varsCedula>>

SalidaInicial == [error |-> "ninguno", firmante |-> FALSE]

\* lines 112-115: the file does not exist; raised before the try
cargar_no_existe ==
    /\ pcCert = "inicio"
    /\ ~entradaCert.existe
    /\ salidaCert' = [salidaCert EXCEPT
                        !.error = "CertificadoNoEncontradoError"]
    /\ pcCert' = "fin"
    /\ UNCHANGED entradaCert
    /\ FueraCert

\* lines 117-134: read the file and load the key
cargar_clave ==
    /\ pcCert = "inicio"
    /\ entradaCert.existe
    /\ IF entradaCert.clave = "clave"
       THEN /\ pcCert' = "clave_privada"
            /\ UNCHANGED salidaCert
       ELSE /\ pcCert' = "except"
            /\ salidaCert' =
                 [salidaCert EXCEPT
                    !.error = IF entradaCert.clave = "None"
                              THEN "ContrasenaIncorrectaError"
                              ELSE entradaCert.clave]
    /\ UNCHANGED entradaCert
    /\ FueraCert

\* lines 137-146: has_private_key, then the public certificate
cargar_clave_privada ==
    /\ pcCert = "clave_privada"
    /\ IF entradaCert.privada
       THEN /\ pcCert' = IF entradaCert.extrae THEN "vencimiento"
                         ELSE "cargado"
            /\ UNCHANGED salidaCert
       ELSE /\ pcCert' = "except"
            /\ salidaCert' = [salidaCert EXCEPT !.error = "FirmaDigitalError"]
    /\ UNCHANGED entradaCert
    /\ FueraCert

\* lines 149-150: the certificate was extracted, its expiry is validated
cargar_validar_vencimiento ==
    /\ pcCert = "vencimiento"
    /\ IF _validar_vencimiento(entradaCert.cert, entradaCert.ahora)
       THEN /\ pcCert' = "except"
            /\ salidaCert' =
                 [salidaCert EXCEPT !.error = "CertificadoVencidoError"]
       ELSE /\ pcCert' = "cargado"
            /\ UNCHANGED salidaCert
    /\ UNCHANGED entradaCert
    /\ FueraCert

\* lines 154-163: the handlers are tried in order.  ContrasenaIncorrectaError
\* is raised again by the first; for any other exception the second clause
\* evaluates the name CertificateError, which the module neither defines
\* nor imports: NameError is raised in place of the exception in flight and
\* the third clause is not reached
cargar_except ==
    /\ pcCert = "except"
    /\ salidaCert' =
         [salidaCert EXCEPT
            !.error = IF salidaCert.error = "ContrasenaIncorrectaError"
                      THEN "ContrasenaIncorrectaError"
                      ELSE "NameError"]
    /\ pcCert' = "fin"
    /\ UNCHANGED entradaCert
    /\ FueraCert

\* line 152 and the return of __init__: the caller holds a FirmaDigital
cargar_return ==
    /\ pcCert = "cargado"
    /\ salidaCert' = [salidaCert EXCEPT !.firmante = TRUE]
    /\ pcCert' = "fin"
    /\ UNCHANGED entradaCert
    /\ FueraCert

NextCert ==
    \/ cargar_no_existe
    \/ cargar_clave
    \/ cargar_clave_privada
    \/ cargar_validar_vencimiento
    \/ cargar_except
    \/ cargar_return

----------------------------------------------------------------------------
(* sri.py : validar_ruc, validar_cedula and generar_xml_factura            *)

\* validar_ruc, lines 14-20
validar_ruc(ruc) == Len(ruc) = 13 /\ isdigit(ruc)

coeficientes == <<2, 1, 2, 1, 2, 1, 2, 1, 2>>

\* validar_cedula, the loop of lines 41-45 over the first n digits
RECURSIVE suma_cedula(_, _)
suma_cedula(cedula, n) ==
    IF n = 0 THEN 0
    ELSE LET producto == int_char(cedula[n]) * coeficientes[n]
         IN  suma_cedula(cedula, n - 1)
             + (IF producto > 9 THEN producto - 9 ELSE producto)

\* validar_cedula, lines 23-49
validar_cedula(cedula) ==
    IF Len(cedula) # 10 \/ ~isdigit(cedula) THEN FALSE
    ELSE LET provincia == int_str(SubSeq(cedula, 1, 2))
         IN  IF provincia < 1 \/ provincia > 24 THEN FALSE
             ELSE IF int_char(cedula[3]) > 6 THEN FALSE
             ELSE (10 - (suma_cedula(cedula, 9) % 10)) % 10
                      = int_char(cedula[10])

\* config.ruc: well formed, ten digits, thirteen characters with letters,
\* empty
RucsConfig ==
    { <<"1","7","9","1","2","3","4","5","6","7","0","0","1">>,
      <<"1","7","9","1","2","3","4","5","6","7">>,
      <<"1","7","9","1","2","3","4","5","6","7","0","A","B">>,
      <<>> }

\* venta.cliente: none, or its tipo_identificacion and cedula
SinCliente == [hay |-> FALSE, tipo_identificacion |-> "", cedula |-> <<>>]

ConCliente(tipo, cedula) ==
    [hay |-> TRUE, tipo_identificacion |-> tipo, cedula |-> cedula]

ClientesVenta ==
    { SinCliente,
      ConCliente("cedula", <<"1","7","1","0","0","3","4","0","6","5">>),
      ConCliente("cedula", <<"1","7","1","0","0","3","4","0","6","6">>),
      ConCliente("cedula", <<"1","7","1","0","0","3","4","0","6">>),
      ConCliente("cedula", <<>>),
      ConCliente("ruc", <<"1","7","9","1","2","3","4","5","6","7","0","0","1">>) }

\* venta.subtotal_12, venta.subtotal_0, venta.descuento in cents (Decimal
\* fields with two places) and config.iva_tarifa_12 in percent
Subtotales12 == {0, 1, 999, 2400, 10000}
Subtotales0 == {0, 500}
Descuentos == {0, 13, 1000}
Tarifas == {0, 12, 14}

\* round(x, 2) of x = centavos * tarifa / 100 cents: the nearest cent.  With
\* the rates of Tarifas the product never lies halfway between two cents.
redondear_centavos(centavos, tarifa) == (centavos * tarifa + 50) \div 100

\* f"{x:.2f}" of an amount of so many cents; negativo is the sign bit of the
\* float, which a negative amount that rounds to zero keeps ("-0.00")
Formato2f(centavos, negativo) ==
    LET a == IF centavos < 0 THEN 0 - centavos ELSE centavos
    IN  (IF negativo THEN <<"-">> ELSE <<>>)
        \o str_int(a \div 100) \o <<".">> \o zfill(str_int(a % 100), 2)

\* lines 154-159: the code of the buyer's identification type
cliente_tipo_id(cliente) ==
    IF ~cliente.hay THEN "07"
    ELSE CASE cliente.tipo_identificacion = "ruc" -> "04"
           [] cliente.tipo_identificacion = "cedula" -> "05"
           [] cliente.tipo_identificacion = "pasaporte" -> "06"
           [] OTHER -> "07"

\* line 161: venta.cliente.cedula or "9999999999"
cliente_identificacion(cliente) ==
    IF cliente.hay /\ cliente.cedula # <<>> THEN cliente.cedula
    ELSE <<"9","9","9","9","9","9","9","9","9","9">>

\* lines 259-275: the totalImpuesto block, written when subtotal_12 > 0
totalImpuesto(e) ==
    LET subtotal_con_desc == e.subtotal_12 - e.descuento
        iva == redondear_centavos(subtotal_con_desc, e.iva_tarifa)
    IN  IF e.subtotal_12 > 0
        THEN << [codigo |-> "2",
                 codigoPorcentaje |-> IF e.iva_tarifa = 12 THEN "2"
                                      ELSE IF e.iva_tarifa = 0 THEN "0"
                                      ELSE "3",
                 baseImponible |->
                     Formato2f(subtotal_con_desc, subtotal_con_desc < 0),
                 valor |->
                     Formato2f(iva, subtotal_con_desc * e.iva_tarifa < 0)] >>
        ELSE <<>>

\* DetalleVenta.subtotal of the rows of venta.detalles, in cents: the sale's
\* amount in one line or split over two
SubtotalesDetalle(e) ==
    LET monto == e.subtotal_12 + e.subtotal_0
    IN  IF monto = 0 THEN <<>>
        ELSE IF e.partes = 1 \/ monto < 2 THEN <<monto>>
        ELSE <<monto \div 2, monto - (monto \div 2)>>

\* lines 318-334: the impuesto block of one detalle
impuesto_detalle(e, subtotal) ==
    [codigo |-> "2",
     codigoPorcentaje |-> IF e.iva_tarifa = 12 THEN "2" ELSE "0",
     tarifa |-> str_int(e.iva_tarifa),
     baseImponible |-> Formato2f(subtotal, FALSE),
     valor |-> Formato2f(redondear_centavos(subtotal, e.iva_tarifa), FALSE)]

\* lines 295-334: one detalle element per row of venta.detalles
detalles_xml(e) ==
    [i \in 1..Len(SubtotalesDetalle(e)) |->
        [precioTotalSinImpuesto |-> Formato2f(SubtotalesDetalle(e)[i], FALSE),
         impuestos |-> <<impuesto_detalle(e, SubtotalesDetalle(e)[i])>>]]

\* generar_xml_factura, lines 121-352: the access key, the number, and the
\* elements of the XML that carry identities and amounts
FacturaXml(e) ==
    LET subtotal_con_desc == e.subtotal_12 - e.descuento
        iva == redondear_centavos(subtotal_con_desc, e.iva_tarifa)
        total == e.subtotal_12 + e.subtotal_0 + iva - e.descuento
        clave_acceso ==
            generar_clave_acceso(FechaVenta, <<"0","1">>, e.ruc, <<"1">>,
                                 EstabConfig, PtoEmisionConfig,
                                 str_int(e.secuencial), TipoEmisionConfig,
                                 e.micros)
    IN  [excepcion |-> FALSE,
         clave_acceso |-> clave_acceso,
         numero_factura |->
             formatear_numero_factura(EstabConfig, PtoEmisionConfig,
                                      e.secuencial),
         secuencial |-> e.secuencial,
         xml |->
           [ruc |-> e.ruc,
            claveAcceso |-> clave_acceso,
            secuencial |-> zfill(str_int(e.secuencial), 9),
            tipoIdentificacionComprador |-> cliente_tipo_id(e.cliente),
            identificacionComprador |-> cliente_identificacion(e.cliente),
            totalSinImpuestos |->
                Formato2f(e.subtotal_12 + e.subtotal_0, FALSE),
            totalDescuento |-> Formato2f(e.descuento, FALSE),
            totalImpuesto |-> totalImpuesto(e),
            importeTotal |-> Formato2f(total, total < 0),
            detalles |-> detalles_xml(e)]]

FueraXml == UNCHANGED <<varsSec, varsClave, varsProc, varsVenta, varsCert,
                        varsDoc, varsNumero, varsXsd, varsCedula>>

\* calcular_digito_verificador takes int(char) of every character of the
\* key, the RUC among them
ClaveCalculable(e) == \A i \in 1..Len(e.ruc) : e.ruc[i] \in Digitos

\* generar_xml_factura returns
generar_xml_factura ==
    /\ pcXml = "inicio"
    /\ ClaveCalculable(entradaXml)
    /\ salidaXml' = FacturaXml(entradaXml)
    /\ pcXml' = "hecho"
    /\ UNCHANGED entradaXml
    /\ FueraXml

\* line 58 inside generar_clave_acceso (line 129): int(char) raises
\* ValueError on a character of the RUC that is not a digit
generar_xml_factura_ValueError ==
    /\ pcXml = "inicio"
    /\ ~ClaveCalculable(entradaXml)
    /\ salidaXml' = [excepcion |-> TRUE]
    /\ pcXml' = "hecho"
    /\ UNCHANGED entradaXml
    /\ FueraXml

NextXml ==
    \/ generar_xml_factura
    \/ generar_xml_factura_ValueError

----------------------------------------------------------------------------
(* sri.py : formatear_numero_factura and control_secuencial.py :           *)
(* GestorSecuencial.formatear_numero_comprobante                           *)

\* three-character codes of establishments and emission points
CodigosTres == { <<"0","0","1">>, <<"0","1","0">>, <<"9","9","9">> }

\* sequentials of 1 to 9 digits, the ends of the range included
SecuencialesNumero ==
    {1, 9, 10, 42, 100000, 99999999, 123456789, 999999999}

\* formatear_numero_comprobante without zfill(9)
formatear_numero_comprobante_sin_relleno(establecimiento, punto_emision, secuencial) ==
    establecimiento \o <<"-">> \o punto_emision \o <<"-">>
    \o str_int(secuencial)

\* formatear_numero_comprobante, line 193:
\* f"{establecimiento}-{punto_emision}-{str(secuencial).zfill(9)}"
formatear_numero_comprobante(establecimiento, punto_emision, secuencial) ==
    establecimiento \o <<"-">> \o punto_emision \o <<"-">>
    \o zfill(str_int(secuencial), 9)

FueraNumero == UNCHANGED <<varsSec, varsClave, varsProc, varsVenta, varsCert,
                           varsXml, varsDoc, varsXsd, varsCedula>>

\* a call of sri.formatear_numero_factura
llamar_formatear_numero_factura ==
    /\ pcNumero = "inicio"
    /\ salidaNumero' = formatear_numero_factura(
            entradaNumero.establecimiento, entradaNumero.punto_emision,
            entradaNumero.secuencial)
    /\ pcNumero' = "hecho"
    /\ FueraNumero
    /\ UNCHANGED entradaNumero

\* a call of GestorSecuencial.formatear_numero_comprobante
llamar_formatear_numero_comprobante ==
    /\ pcNumero = "inicio"
    /\ salidaNumero' = formatear_numero_comprobante(
            entradaNumero.establecimiento, entradaNumero.punto_emision,
            entradaNumero.secuencial)
    /\ pcNumero' = "hecho_gestor"
    /\ FueraNumero
    /\ UNCHANGED entradaNumero

NextNumero ==
    \/ llamar_formatear_numero_factura
    \/ llamar_formatear_numero_comprobante

----------------------------------------------------------------------------
(* validacion_xsd.py : ValidadorXSD.validar_xml and                        *)
(* _validar_estructura_basica                                              *)

\* lines 169-175: the root elements the structural check knows
RaicesConocidas ==
    {"factura", "notaCredito", "notaDebito", "guiaRemision",
     "comprobanteRetencion"}

\* lines 185-195
campos_requeridos ==
    <<"ambiente", "tipoEmision", "razonSocial", "ruc", "claveAcceso",
      "codDoc", "estab", "ptoEmision", "secuencial">>

\* a child of infoTributaria: absent, present without text, or with text
EstadosCampo == {"falta", "vacio", "texto"}

\* infoTributaria with every required child filled in
TributariaCompleta ==
    [i \in 1..Len(campos_requeridos) |-> "texto"]

\* doc.find(".//infoTributaria") is None
SinTributaria == [hay |-> FALSE, campos |-> <<>>]

\* the infoTributaria elements of the documents: absent, complete, or with
\* one or two required children absent or empty
InfosTributarias ==
    {SinTributaria}
    \cup { [hay |-> TRUE, campos |-> c] :
              c \in {TributariaCompleta}
                 \cup { [TributariaCompleta EXCEPT ![i] = d] :
                          i \in 1..Len(campos_requeridos),
                          d \in {"falta", "vacio"} }
                 \cup { [TributariaCompleta EXCEPT ![1] = "falta",
                                                   ![9] = "vacio"],
                        [TributariaCompleta EXCEPT ![4] = "vacio",
                                                   ![5] = "falta"] } }

\* what the schema of the document type does: none loaded ("None"), or a
\* loaded schema that accepts or rejects the document
Esquemas == {"None", "acepta", "rechaza"}

\* lines 184-200: one error per required child that is absent or has no
\* text, in the order of campos_requeridos, from position i on
RECURSIVE errores_campos(_, _)
errores_campos(campos, i) ==
    IF i > Len(campos_requeridos) THEN <<>>
    ELSE (IF campos[i] \in {"falta", "vacio"}
          THEN << <<"Falta campo en infoTributaria", campos_requeridos[i]>> >>
          ELSE <<>>)
         \o errores_campos(campos, i + 1)

\* _validar_estructura_basica, lines 154-208
_validar_estructura_basica(doc) ==
    LET errores ==
          (IF doc.raiz \notin RaicesConocidas
           THEN << <<"Elemento raiz desconocido", doc.raiz>> >> ELSE <<>>)
          \o (IF ~doc.info_tributaria.hay
              THEN << <<"Falta elemento infoTributaria">> >>
              ELSE errores_campos(doc.info_tributaria.campos, 1))
          \o (IF doc.raiz = "factura" /\ "infoFactura" \notin doc.bloques
              THEN << <<"Falta elemento infoFactura">> >> ELSE <<>>)
    IN  [ok |-> Len(errores) = 0, errores |-> errores]

FueraXsd == UNCHANGED <<varsSec, varsClave, varsProc, varsVenta, varsCert,
                        varsXml, varsDoc, varsNumero, varsCedula>>

\* validar_xml, lines 121-127: etree.fromstring raises on a malformed text
validar_xml_mal_formado ==
    /\ pcXsd = "inicio"
    /\ ~entradaXsd.bien_formado
    /\ salidaXsd' = [ok |-> FALSE, errores |-> << <<"XML mal formado">> >>]
    /\ pcXsd' = "hecho"
    /\ FueraXsd
    /\ UNCHANGED entradaXsd

\* validar_xml, lines 131-139: no schema for the type, the structural check
validar_xml_sin_esquema ==
    /\ pcXsd = "inicio"
    /\ entradaXsd.bien_formado
    /\ entradaXsd.esquema = "None"
    /\ salidaXsd' = _validar_estructura_basica(entradaXsd)
    /\ pcXsd' = "hecho"
    /\ FueraXsd
    /\ UNCHANGED entradaXsd

\* validar_xml, lines 141-152: the loaded schema decides
validar_xml_con_esquema ==
    /\ pcXsd = "inicio"
    /\ entradaXsd.bien_formado
    /\ entradaXsd.esquema # "None"
    /\ salidaXsd' =
          IF entradaXsd.esquema = "acepta"
          THEN [ok |-> TRUE, errores |-> <<>>]
          ELSE [ok |-> FALSE, errores |-> << <<"Linea", "error del esquema">> >>]
    /\ pcXsd' = "hecho"
    /\ FueraXsd
    /\ UNCHANGED entradaXsd

NextXsd ==
    \/ validar_xml_mal_formado
    \/ validar_xml_sin_esquema
    \/ validar_xml_con_esquema

----------------------------------------------------------------------------
(* sri.py : validar_cedula called on arbitrary text                        *)

\* characters for which str.isdigit() is true and int() raises ValueError:
\* "^2" stands for the one character SUPERSCRIPT TWO (U+00B2)
DigitosNoDecimales == {"^2"}

\* str.isdigit() over the characters of the inputs
isdigit_unicode(s) ==
    Len(s) > 0 /\ \A i \in 1..Len(s) : s[i] \in Digitos \cup DigitosNoDecimales

\* int(s) raises ValueError
int_falla(s) == \E i \in 1..Len(s) : s[i] \notin Digitos

\* validar_cedula, lines 23-49, with the int() calls in the order the code
\* makes them: cedula[:2], cedula[2], cedula[0..8] in the loop, cedula[9]
validar_cedula_resultado(cedula) ==
    IF Len(cedula) # 10 \/ ~isdigit_unicode(cedula) THEN "False"
    ELSE IF int_falla(SubSeq(cedula, 1, 2)) THEN "ValueError"
    ELSE IF int_str(SubSeq(cedula, 1, 2)) < 1
            \/ int_str(SubSeq(cedula, 1, 2)) > 24 THEN "False"
    ELSE IF int_falla(<<cedula[3]>>) THEN "ValueError"
    ELSE IF int_char(cedula[3]) > 6 THEN "False"
    ELSE IF int_falla(cedula) THEN "ValueError"
    ELSE IF validar_cedula(cedula) THEN "True" ELSE "False"

\* nine-character beginnings of the ten-character inputs
PrefijosCedula ==
    { <<"1","7","1","0","0","3","4","0","6">>,
      <<"1","7","1","2","3","4","5","6","7">>,
      <<"0","0","1","0","0","3","4","0","6">>,
      <<"0","1","0","0","0","0","0","0","0">>,
      <<"2","4","6","9","9","9","9","9","9">>,
      <<"2","5","1","0","0","3","4","0","6">>,
      <<"1","7","7","0","0","3","4","0","6">>,
      <<"9","9","9","9","9","9","9","9","9">>,
      <<"1","7","1","0","0","3","4","0","^2">>,
      <<"1","7","^2","0","0","3","4","0","6">>,
      <<"9","9","1","0","0","3","4","0","^2">> }

\* the inputs: every prefix with every last character, and texts that are
\* not ten characters long or not numeric
Cedulas ==
    { pre \o <<d>> : pre \in PrefijosCedula, d \in Digitos \cup {"^2", "x"} }
    \cup { <<>>, <<"1","2","3","4","5">>,
           <<"1","2","3","4","5","6","7","8","9","0","1">>,
           <<"a","b","c","d","e","f","g","h","i","j">>,
           <<"1","7","1","0","0","3","4","0","6">>,
           <<"1","7","1","0","0","3","4","0","6","5","0">> }

FueraCedula == UNCHANGED <<varsSec, varsClave, varsProc, varsVenta, varsCert,
                           varsXml, varsDoc, varsNumero, varsXsd>>

\* validar_cedula returns
llamar_validar_cedula ==
    /\ pcCedula = "inicio"
    /\ validar_cedula_resultado(entradaCedula) # "ValueError"
    /\ salidaCedula' = validar_cedula_resultado(entradaCedula)
    /\ pcCedula' = "hecho"
    /\ FueraCedula
    /\ UNCHANGED entradaCedula

\* int() raises inside validar_cedula and nothing catches it
llamar_validar_cedula_ValueError ==
    /\ pcCedula = "inicio"
    /\ validar_cedula_resultado(entradaCedula) = "ValueError"
    /\ salidaCedula' = "ValueError"
    /\ pcCedula' = "hecho"
    /\ FueraCedula
    /\ UNCHANGED entradaCedula

NextCedula ==
    \/ llamar_validar_cedula
    \/ llamar_validar_cedula_ValueError

----------------------------------------------------------------------------
(* Specifications *)

\* Each specification runs one part of the program; the variables of the
\* other parts stay at the values given here.

\* the allocator: the counters of the Configuracion row hold any positive
\* value, the cache is empty, nobody holds the row lock
InitSec ==
    /\ \E v \in {1, MAX_SECUENCIAL - 1} :
          /\ secuencia = [c \in Campos |-> v]
          /\ inicialSec = [c \in Campos |-> v]
    /\ cache = [t \in Tipos |-> 0]
    /\ bloqueo = 0
    /\ pcSec = [p \in Llamadores |-> "libre"]
    /\ tipoSec = [p \in Llamadores |-> "01"]
    /\ nuevoSec = [p \in Llamadores |-> 0]
    /\ epocaSec = [p \in Llamadores |-> 0]
    /\ registro = <<>>
    /\ reinicios = 0
    /\ reloj = 0
    /\ entradaClave = [fecha_emision |-> <<>>]
    /\ claveAcceso = <<>>
    /\ pcClave = "aparcado"
    /\ argsProc = [firmar |-> FALSE, enviar_sri |-> FALSE,
                   enviar_email |-> FALSE, ambiente |-> "1"]
    /\ guionAut = <<>>
    /\ pcProc = "aparcado"
    /\ resultado = ResultadoInicial
    /\ resultado_sri = Nulo
    /\ intento = 0
    /\ ultimo_error = "None"
    /\ esperas = <<>>
    /\ xmlEnviado = <<>>
    /\ consultasAut = 0
    /\ pdfGenerado = FALSE
    /\ emailDespachado = FALSE
    /\ invocaciones = [recepcion |-> <<>>, autorizacion |-> <<>>]
    /\ wsdl = "no"
    /\ certificadoUsado = "ninguno"
    /\ ventaProc = 1
    /\ corridas = <<>>
    /\ pcVenta = [p \in 1..NumPeticiones |-> "aparcado"]
    /\ peticion = [p \in 1..NumPeticiones |-> 0]
    /\ ventas = <<>>
    /\ idVenta = 1
    /\ stock = [r \in Repuestos |-> 0]
    /\ detalles = <<>>
    /\ entradaCert = [existe |-> FALSE]
    /\ pcCert = "aparcado"
    /\ salidaCert = [error |-> "ninguno", firmante |-> FALSE]
    /\ entradaXml = [ruc |-> <<>>]
    /\ pcXml = "aparcado"
    /\ salidaXml = [excepcion |-> FALSE]
    /\ documento = [estado_sri |-> "pendiente", clave_acceso |-> <<>>]
    /\ entradaNumero = [establecimiento |-> <<>>]
    /\ pcNumero = "aparcado"
    /\ salidaNumero = <<>>
    /\ entradaXsd = [bien_formado |-> FALSE]
    /\ pcXsd = "aparcado"
    /\ salidaXsd = [ok |-> FALSE, errores |-> <<>>]
    /\ entradaCedula = <<>>
    /\ pcCedula = "aparcado"
    /\ salidaCedula = "ninguno"

\* the access key: the arguments and the clock of one call
InitClave ==
    /\ entradaClave \in
          [fecha_emision : Fechas, tipo_comprobante : TiposComprobante,
           ruc : Rucs, ambiente : Ambientes,
           establecimiento : Establecimientos, punto_emision : PuntosEmision,
           secuencial : SecuencialesClave, tipo_emision : TiposEmision]
    /\ reloj \in Relojes
    /\ claveAcceso = <<>>
    /\ pcClave = "inicio"
    /\ secuencia = [c \in Campos |-> 1]
    /\ inicialSec = [c \in Campos |-> 1]
    /\ cache = [t \in Tipos |-> 0]
    /\ bloqueo = 0
    /\ pcSec = [p \in Llamadores |-> "libre"]
    /\ tipoSec = [p \in Llamadores |-> "01"]
    /\ nuevoSec = [p \in Llamadores |-> 0]
    /\ epocaSec = [p \in Llamadores |-> 0]
    /\ registro = <<>>
    /\ reinicios = 0
    /\ argsProc = [firmar |-> FALSE, enviar_sri |-> FALSE,
                   enviar_email |-> FALSE, ambiente |-> "1"]
    /\ guionAut = <<>>
    /\ pcProc = "aparcado"
    /\ resultado = ResultadoInicial
    /\ resultado_sri = Nulo
    /\ intento = 0
    /\ ultimo_error = "None"
    /\ esperas = <<>>
    /\ xmlEnviado = <<>>
    /\ consultasAut = 0
    /\ pdfGenerado = FALSE
    /\ emailDespachado = FALSE
    /\ invocaciones = [recepcion |-> <<>>, autorizacion |-> <<>>]
    /\ wsdl = "no"
    /\ certificadoUsado = "ninguno"
    /\ ventaProc = 1
    /\ corridas = <<>>
    /\ pcVenta = [p \in 1..NumPeticiones |-> "aparcado"]
    /\ peticion = [p \in 1..NumPeticiones |-> 0]
    /\ ventas = <<>>
    /\ idVenta = 1
    /\ stock = [r \in Repuestos |-> 0]
    /\ detalles = <<>>
    /\ entradaCert = [existe |-> FALSE]
    /\ pcCert = "aparcado"
    /\ salidaCert = [error |-> "ninguno", firmante |-> FALSE]
    /\ entradaXml = [ruc |-> <<>>]
    /\ pcXml = "aparcado"
    /\ salidaXml = [excepcion |-> FALSE]
    /\ documento = [estado_sri |-> "pendiente", clave_acceso |-> <<>>]
    /\ entradaNumero = [establecimiento |-> <<>>]
    /\ pcNumero = "aparcado"
    /\ salidaNumero = <<>>
    /\ entradaXsd = [bien_formado |-> FALSE]
    /\ pcXsd = "aparcado"
    /\ salidaXsd = [ok |-> FALSE, errores |-> <<>>]
    /\ entradaCedula = <<>>
    /\ pcCedula = "aparcado"
    /\ salidaCedula = "ninguno"

\* the orchestrator: the arguments of one procesar_factura call, the answers
\* the authorization service will give, the clock and the counters it reads
InitProc ==
    /\ argsProc \in [firmar : BOOLEAN, enviar_sri : BOOLEAN,
                     enviar_email : BOOLEAN, ambiente : {"1", "2"}]
    /\ guionAut \in GuionesAutorizacion
    /\ pcProc = "generar_xml"
    /\ resultado = ResultadoInicial
    /\ resultado_sri = Nulo
    /\ intento = 0
    /\ ultimo_error = "None"
    /\ esperas = <<>>
    /\ xmlEnviado = <<>>
    /\ consultasAut = 0
    /\ pdfGenerado = FALSE
    /\ emailDespachado = FALSE
    /\ invocaciones = [recepcion |-> <<>>, autorizacion |-> <<>>]
    /\ wsdl = "no"
    /\ certificadoUsado = "ninguno"
    /\ ventaProc = 1
    /\ corridas = <<>>
    /\ pcVenta = [p \in 1..NumPeticiones |-> "aparcado"]
    /\ peticion = [p \in 1..NumPeticiones |-> 0]
    /\ ventas = <<>>
    /\ idVenta = 1
    /\ stock = [r \in Repuestos |-> 0]
    /\ detalles = <<>>
    /\ secuencia = [c \in Campos |-> 1]
    /\ inicialSec = [c \in Campos |-> 1]
    /\ cache = [t \in Tipos |-> 0]
    /\ bloqueo = 0
    /\ pcSec = [p \in Llamadores |-> "libre"]
    /\ tipoSec = [p \in Llamadores |-> "01"]
    /\ nuevoSec = [p \in Llamadores |-> 0]
    /\ epocaSec = [p \in Llamadores |-> 0]
    /\ registro = <<>>
    /\ reinicios = 0
    /\ reloj \in {5, 123456}
    /\ entradaClave = [fecha_emision |-> <<>>]
    /\ claveAcceso = <<>>
    /\ pcClave = "aparcado"
    /\ entradaCert = [existe |-> FALSE]
    /\ pcCert = "aparcado"
    /\ salidaCert = [error |-> "ninguno", firmante |-> FALSE]
    /\ entradaXml = [ruc |-> <<>>]
    /\ pcXml = "aparcado"
    /\ salidaXml = [excepcion |-> FALSE]
    /\ documento = [estado_sri |-> "pendiente", clave_acceso |-> <<>>]
    /\ entradaNumero = [establecimiento |-> <<>>]
    /\ pcNumero = "aparcado"
    /\ salidaNumero = <<>>
    /\ entradaXsd = [bien_formado |-> FALSE]
    /\ pcXsd = "aparcado"
    /\ salidaXsd = [ok |-> FALSE, errores |-> <<>>]
    /\ entradaCedula = <<>>
    /\ pcCedula = "aparcado"
    /\ salidaCedula = "ninguno"

\* procesar_factura called up to MaxCorridas times with the same flags and
\* configuration in the test environment; the SRI answers AUTORIZADO
InitReproc ==
    /\ argsProc \in [firmar : BOOLEAN, enviar_sri : BOOLEAN,
                     enviar_email : {TRUE}, ambiente : {"1"}]
    /\ guionAut = <<RespAutorizado>>
    /\ pcProc = "generar_xml"
    /\ resultado = ResultadoInicial
    /\ resultado_sri = Nulo
    /\ intento = 0
    /\ ultimo_error = "None"
    /\ esperas = <<>>
    /\ xmlEnviado = <<>>
    /\ consultasAut = 0
    /\ pdfGenerado = FALSE
    /\ emailDespachado = FALSE
    /\ invocaciones = [recepcion |-> <<>>, autorizacion |-> <<>>]
    /\ wsdl = "no"
    /\ certificadoUsado = "ninguno"
    /\ ventaProc = 1
    /\ corridas = <<>>
    /\ pcVenta = [p \in 1..NumPeticiones |-> "aparcado"]
    /\ peticion = [p \in 1..NumPeticiones |-> 0]
    /\ ventas = <<>>
    /\ idVenta = 1
    /\ stock = [r \in Repuestos |-> 0]
    /\ detalles = <<>>
    /\ secuencia = [c \in Campos |-> 1]
    /\ inicialSec = [c \in Campos |-> 1]
    /\ cache = [t \in Tipos |-> 0]
    /\ bloqueo = 0
    /\ pcSec = [p \in Llamadores |-> "libre"]
    /\ tipoSec = [p \in Llamadores |-> "01"]
    /\ nuevoSec = [p \in Llamadores |-> 0]
    /\ epocaSec = [p \in Llamadores |-> 0]
    /\ registro = <<>>
    /\ reinicios = 0
    /\ reloj = 5
    /\ entradaClave = [fecha_emision |-> <<>>]
    /\ claveAcceso = <<>>
    /\ pcClave = "aparcado"
    /\ entradaCert = [existe |-> FALSE]
    /\ pcCert = "aparcado"
    /\ salidaCert = [error |-> "ninguno", firmante |-> FALSE]
    /\ entradaXml = [ruc |-> <<>>]
    /\ pcXml = "aparcado"
    /\ salidaXml = [excepcion |-> FALSE]
    /\ documento = [estado_sri |-> "pendiente", clave_acceso |-> <<>>]
    /\ entradaNumero = [establecimiento |-> <<>>]
    /\ pcNumero = "aparcado"
    /\ salidaNumero = <<>>
    /\ entradaXsd = [bien_formado |-> FALSE]
    /\ pcXsd = "aparcado"
    /\ salidaXsd = [ok |-> FALSE, errores |-> <<>>]
    /\ entradaCedula = <<>>
    /\ pcCedula = "aparcado"
    /\ salidaCedula = "ninguno"

\* sale creation: NumPeticiones requests arrive, the Configuracion row holds
\* a positive invoice counter, no sale exists yet
InitVenta ==
    /\ pcVenta = [p \in 1..NumPeticiones |-> "inicio"]
    /\ peticion = [p \in 1..NumPeticiones |-> PeticionInicial]
    /\ ventas = <<>>
    /\ idVenta = 1
    /\ stock = [r \in Repuestos |-> IF r = "r1" THEN 2 ELSE 1]
    /\ detalles = <<>>
    /\ \E v \in {1, 41} :
          /\ secuencia = [c \in Campos |-> v]
          /\ inicialSec = [c \in Campos |-> v]
    /\ reloj \in {5, 123456}
    /\ cache = [t \in Tipos |-> 0]
    /\ bloqueo = 0
    /\ pcSec = [p \in Llamadores |-> "libre"]
    /\ tipoSec = [p \in Llamadores |-> "01"]
    /\ nuevoSec = [p \in Llamadores |-> 0]
    /\ epocaSec = [p \in Llamadores |-> 0]
    /\ registro = <<>>
    /\ reinicios = 0
    /\ entradaClave = [fecha_emision |-> <<>>]
    /\ claveAcceso = <<>>
    /\ pcClave = "aparcado"
    /\ argsProc = [firmar |-> FALSE, enviar_sri |-> FALSE,
                   enviar_email |-> FALSE, ambiente |-> "1"]
    /\ guionAut = <<>>
    /\ pcProc = "aparcado"
    /\ resultado = ResultadoInicial
    /\ resultado_sri = Nulo
    /\ intento = 0
    /\ ultimo_error = "None"
    /\ esperas = <<>>
    /\ xmlEnviado = <<>>
    /\ consultasAut = 0
    /\ pdfGenerado = FALSE
    /\ emailDespachado = FALSE
    /\ invocaciones = [recepcion |-> <<>>, autorizacion |-> <<>>]
    /\ wsdl = "no"
    /\ certificadoUsado = "ninguno"
    /\ ventaProc = 1
    /\ corridas = <<>>
    /\ entradaCert = [existe |-> FALSE]
    /\ pcCert = "aparcado"
    /\ salidaCert = [error |-> "ninguno", firmante |-> FALSE]
    /\ entradaXml = [ruc |-> <<>>]
    /\ pcXml = "aparcado"
    /\ salidaXml = [excepcion |-> FALSE]
    /\ documento = [estado_sri |-> "pendiente", clave_acceso |-> <<>>]
    /\ entradaNumero = [establecimiento |-> <<>>]
    /\ pcNumero = "aparcado"
    /\ salidaNumero = <<>>
    /\ entradaXsd = [bien_formado |-> FALSE]
    /\ pcXsd = "aparcado"
    /\ salidaXsd = [ok |-> FALSE, errores |-> <<>>]
    /\ entradaCedula = <<>>
    /\ pcCedula = "aparcado"
    /\ salidaCedula = "ninguno"

\* one procesar_factura call in the test environment, for the SOAP client
InitReintentar ==
    /\ argsProc \in [firmar : BOOLEAN, enviar_sri : BOOLEAN,
                     enviar_email : {TRUE}, ambiente : {"1"}]
    /\ guionAut \in GuionesAutorizacion
    /\ pcProc = "generar_xml"
    /\ resultado = ResultadoInicial
    /\ resultado_sri = Nulo
    /\ intento = 0
    /\ ultimo_error = "None"
    /\ esperas = <<>>
    /\ xmlEnviado = <<>>
    /\ consultasAut = 0
    /\ pdfGenerado = FALSE
    /\ emailDespachado = FALSE
    /\ invocaciones = [recepcion |-> <<>>, autorizacion |-> <<>>]
    /\ wsdl = "no"
    /\ certificadoUsado = "ninguno"
    /\ ventaProc = 1
    /\ corridas = <<>>
    /\ pcVenta = [p \in 1..NumPeticiones |-> "aparcado"]
    /\ peticion = [p \in 1..NumPeticiones |-> 0]
    /\ ventas = <<>>
    /\ idVenta = 1
    /\ stock = [r \in Repuestos |-> 0]
    /\ detalles = <<>>
    /\ secuencia = [c \in Campos |-> 1]
    /\ inicialSec = [c \in Campos |-> 1]
    /\ cache = [t \in Tipos |-> 0]
    /\ bloqueo = 0
    /\ pcSec = [p \in Llamadores |-> "libre"]
    /\ tipoSec = [p \in Llamadores |-> "01"]
    /\ nuevoSec = [p \in Llamadores |-> 0]
    /\ epocaSec = [p \in Llamadores |-> 0]
    /\ registro = <<>>
    /\ reinicios = 0
    /\ reloj = 5
    /\ entradaClave = [fecha_emision |-> <<>>]
    /\ claveAcceso = <<>>
    /\ pcClave = "aparcado"
    /\ entradaCert = [existe |-> FALSE]
    /\ pcCert = "aparcado"
    /\ salidaCert = [error |-> "ninguno", firmante |-> FALSE]
    /\ entradaXml = [ruc |-> <<>>]
    /\ pcXml = "aparcado"
    /\ salidaXml = [excepcion |-> FALSE]
    /\ documento = [estado_sri |-> "pendiente", clave_acceso |-> <<>>]
    /\ entradaNumero = [establecimiento |-> <<>>]
    /\ pcNumero = "aparcado"
    /\ salidaNumero = <<>>
    /\ entradaXsd = [bien_formado |-> FALSE]
    /\ pcXsd = "aparcado"
    /\ salidaXsd = [ok |-> FALSE, errores |-> <<>>]
    /\ entradaCedula = <<>>
    /\ pcCedula = "aparcado"
    /\ salidaCedula = "ninguno"

\* certificate loading: the file, what xmlsec makes of it, the certificate
\* it holds and the clock of one FirmaDigital(...) call
InitCert ==
    /\ entradaCert \in
          [existe : BOOLEAN, clave : ResultadosClave, privada : BOOLEAN,
           extrae : BOOLEAN, cert : CertificadosP12, ahora : Ahoras]
    /\ pcCert = "inicio"
    /\ salidaCert = SalidaInicial
    /\ secuencia = [c \in Campos |-> 1]
    /\ cache = [t \in Tipos |-> 0]
    /\ bloqueo = 0
    /\ pcSec = [p \in Llamadores |-> "libre"]
    /\ tipoSec = [p \in Llamadores |-> "01"]
    /\ nuevoSec = [p \in Llamadores |-> 0]
    /\ epocaSec = [p \in Llamadores |-> 0]
    /\ registro = <<>>
    /\ inicialSec = [c \in Campos |-> 1]
    /\ reinicios = 0
    /\ entradaClave = [fecha_emision |-> <<>>]
    /\ reloj = 0
    /\ claveAcceso = <<>>
    /\ pcClave = "aparcado"
    /\ argsProc = [firmar |-> FALSE, enviar_sri |-> FALSE,
                   enviar_email |-> FALSE, ambiente |-> "1"]
    /\ pcProc = "aparcado"
    /\ resultado = ResultadoInicial
    /\ resultado_sri = Nulo
    /\ guionAut = <<>>
    /\ intento = 0
    /\ ultimo_error = "None"
    /\ esperas = <<>>
    /\ xmlEnviado = <<>>
    /\ consultasAut = 0
    /\ pdfGenerado = FALSE
    /\ emailDespachado = FALSE
    /\ invocaciones = [recepcion |-> <<>>, autorizacion |-> <<>>]
    /\ wsdl = "no"
    /\ certificadoUsado = "ninguno"
    /\ ventaProc = 1
    /\ corridas = <<>>
    /\ pcVenta = [p \in 1..NumPeticiones |-> "aparcado"]
    /\ peticion = [p \in 1..NumPeticiones |-> 0]
    /\ ventas = <<>>
    /\ idVenta = 1
    /\ stock = [r \in Repuestos |-> 0]
    /\ detalles = <<>>
    /\ entradaXml = [ruc |-> <<>>]
    /\ pcXml = "aparcado"
    /\ salidaXml = [excepcion |-> FALSE]
    /\ documento = [estado_sri |-> "pendiente", clave_acceso |-> <<>>]
    /\ entradaNumero = [establecimiento |-> <<>>]
    /\ pcNumero = "aparcado"
    /\ salidaNumero = <<>>
    /\ entradaXsd = [bien_formado |-> FALSE]
    /\ pcXsd = "aparcado"
    /\ salidaXsd = [ok |-> FALSE, errores |-> <<>>]
    /\ entradaCedula = <<>>
    /\ pcCedula = "aparcado"
    /\ salidaCedula = "ninguno"

\* the XML builder: a sale with its buyer and amounts, the RUC of the
\* configuration, its invoice counter and the clock of one call
InitXml ==
    /\ entradaXml \in
          [ruc : RucsConfig, cliente : ClientesVenta,
           subtotal_12 : Subtotales12, subtotal_0 : Subtotales0,
           descuento : Descuentos, iva_tarifa : Tarifas,
           secuencial : {1, 42}, micros : {5}, partes : {1, 2}]
    /\ pcXml = "inicio"
    /\ salidaXml = [excepcion |-> FALSE]
    /\ reloj = 0
    /\ secuencia = [c \in Campos |-> 1]
    /\ cache = [t \in Tipos |-> 0]
    /\ bloqueo = 0
    /\ pcSec = [p \in Llamadores |-> "libre"]
    /\ tipoSec = [p \in Llamadores |-> "01"]
    /\ nuevoSec = [p \in Llamadores |-> 0]
    /\ epocaSec = [p \in Llamadores |-> 0]
    /\ registro = <<>>
    /\ inicialSec = [c \in Campos |-> 1]
    /\ reinicios = 0
    /\ entradaClave = [fecha_emision |-> <<>>]
    /\ claveAcceso = <<>>
    /\ pcClave = "aparcado"
    /\ argsProc = [firmar |-> FALSE, enviar_sri |-> FALSE,
                   enviar_email |-> FALSE, ambiente |-> "1"]
    /\ pcProc = "aparcado"
    /\ resultado = ResultadoInicial
    /\ resultado_sri = Nulo
    /\ guionAut = <<>>
    /\ intento = 0
    /\ ultimo_error = "None"
    /\ esperas = <<>>
    /\ xmlEnviado = <<>>
    /\ consultasAut = 0
    /\ pdfGenerado = FALSE
    /\ emailDespachado = FALSE
    /\ invocaciones = [recepcion |-> <<>>, autorizacion |-> <<>>]
    /\ wsdl = "no"
    /\ certificadoUsado = "ninguno"
    /\ ventaProc = 1
    /\ corridas = <<>>
    /\ pcVenta = [p \in 1..NumPeticiones |-> "aparcado"]
    /\ peticion = [p \in 1..NumPeticiones |-> 0]
    /\ ventas = <<>>
    /\ idVenta = 1
    /\ stock = [r \in Repuestos |-> 0]
    /\ detalles = <<>>
    /\ entradaCert = [existe |-> FALSE]
    /\ pcCert = "aparcado"
    /\ salidaCert = [error |-> "ninguno", firmante |-> FALSE]
    /\ documento = [estado_sri |-> "pendiente", clave_acceso |-> <<>>]
    /\ entradaNumero = [establecimiento |-> <<>>]
    /\ pcNumero = "aparcado"
    /\ salidaNumero = <<>>
    /\ entradaXsd = [bien_formado |-> FALSE]
    /\ pcXsd = "aparcado"
    /\ salidaXsd = [ok |-> FALSE, errores |-> <<>>]
    /\ entradaCedula = <<>>
    /\ pcCedula = "aparcado"
    /\ salidaCedula = "ninguno"

\* number formatting: any valid triple of establishment, emission point and
\* sequential
InitNumero ==
    /\ entradaNumero \in [establecimiento : CodigosTres,
                          punto_emision : CodigosTres,
                          secuencial : SecuencialesNumero]
    /\ pcNumero = "inicio"
    /\ salidaNumero = <<>>
    /\ secuencia = [c \in Campos |-> 1]
    /\ cache = [t \in Tipos |-> 0]
    /\ bloqueo = 0
    /\ pcSec = [p \in Llamadores |-> "libre"]
    /\ tipoSec = [p \in Llamadores |-> "01"]
    /\ nuevoSec = [p \in Llamadores |-> 0]
    /\ epocaSec = [p \in Llamadores |-> 0]
    /\ registro = <<>>
    /\ inicialSec = [c \in Campos |-> 1]
    /\ reinicios = 0
    /\ entradaClave = [fecha_emision |-> <<>>]
    /\ reloj = 0
    /\ claveAcceso = <<>>
    /\ pcClave = "aparcado"
    /\ argsProc = [firmar |-> FALSE, enviar_sri |-> FALSE,
                   enviar_email |-> FALSE, ambiente |-> "1"]
    /\ pcProc = "aparcado"
    /\ resultado = ResultadoInicial
    /\ resultado_sri = Nulo
    /\ guionAut = <<>>
    /\ intento = 0
    /\ ultimo_error = "None"
    /\ esperas = <<>>
    /\ xmlEnviado = <<>>
    /\ consultasAut = 0
    /\ pdfGenerado = FALSE
    /\ emailDespachado = FALSE
    /\ invocaciones = [recepcion |-> <<>>, autorizacion |-> <<>>]
    /\ wsdl = "no"
    /\ certificadoUsado = "ninguno"
    /\ ventaProc = 1
    /\ corridas = <<>>
    /\ pcVenta = [p \in 1..NumPeticiones |-> "aparcado"]
    /\ peticion = [p \in 1..NumPeticiones |-> 0]
    /\ ventas = <<>>
    /\ idVenta = 1
    /\ stock = [r \in Repuestos |-> 0]
    /\ detalles = <<>>
    /\ entradaCert = [existe |-> FALSE]
    /\ pcCert = "aparcado"
    /\ salidaCert = [error |-> "ninguno", firmante |-> FALSE]
    /\ entradaXml = [ruc |-> <<>>]
    /\ pcXml = "aparcado"
    /\ salidaXml = [excepcion |-> FALSE]
    /\ documento = [estado_sri |-> "pendiente", clave_acceso |-> <<>>]
    /\ entradaXsd = [bien_formado |-> FALSE]
    /\ pcXsd = "aparcado"
    /\ salidaXsd = [ok |-> FALSE, errores |-> <<>>]
    /\ entradaCedula = <<>>
    /\ pcCedula = "aparcado"
    /\ salidaCedula = "ninguno"

\* XSD validation: a document with a known or an unknown root, with or
\* without infoTributaria and the info block named after its type, and the
\* schema state of its type
InitXsd ==
    /\ entradaXsd \in
          [bien_formado : BOOLEAN,
           raiz : RaicesConocidas \cup {"otro"},
           info_tributaria : InfosTributarias,
           bloques : { {}, {"infoFactura"}, {"infoNotaCredito"},
                       {"infoNotaDebito"}, {"infoGuiaRemision"},
                       {"infoCompRetencion"} },
           esquema : Esquemas]
    /\ pcXsd = "inicio"
    /\ salidaXsd = [ok |-> FALSE, errores |-> <<>>]
    /\ secuencia = [c \in Campos |-> 1]
    /\ cache = [t \in Tipos |-> 0]
    /\ bloqueo = 0
    /\ pcSec = [p \in Llamadores |-> "libre"]
    /\ tipoSec = [p \in Llamadores |-> "01"]
    /\ nuevoSec = [p \in Llamadores |-> 0]
    /\ epocaSec = [p \in Llamadores |-> 0]
    /\ registro = <<>>
    /\ inicialSec = [c \in Campos |-> 1]
    /\ reinicios = 0
    /\ entradaClave = [fecha_emision |-> <<>>]
    /\ reloj = 0
    /\ claveAcceso = <<>>
    /\ pcClave = "aparcado"
    /\ argsProc = [firmar |-> FALSE, enviar_sri |-> FALSE,
                   enviar_email |-> FALSE, ambiente |-> "1"]
    /\ pcProc = "aparcado"
    /\ resultado = ResultadoInicial
    /\ resultado_sri = Nulo
    /\ guionAut = <<>>
    /\ intento = 0
    /\ ultimo_error = "None"
    /\ esperas = <<>>
    /\ xmlEnviado = <<>>
    /\ consultasAut = 0
    /\ pdfGenerado = FALSE
    /\ emailDespachado = FALSE
    /\ invocaciones = [recepcion |-> <<>>, autorizacion |-> <<>>]
    /\ wsdl = "no"
    /\ certificadoUsado = "ninguno"
    /\ ventaProc = 1
    /\ corridas = <<>>
    /\ pcVenta = [p \in 1..NumPeticiones |-> "aparcado"]
    /\ peticion = [p \in 1..NumPeticiones |-> 0]
    /\ ventas = <<>>
    /\ idVenta = 1
    /\ stock = [r \in Repuestos |-> 0]
    /\ detalles = <<>>
    /\ entradaCert = [existe |-> FALSE]
    /\ pcCert = "aparcado"
    /\ salidaCert = [error |-> "ninguno", firmante |-> FALSE]
    /\ entradaXml = [ruc |-> <<>>]
    /\ pcXml = "aparcado"
    /\ salidaXml = [excepcion |-> FALSE]
    /\ documento = [estado_sri |-> "pendiente", clave_acceso |-> <<>>]
    /\ entradaNumero = [establecimiento |-> <<>>]
    /\ pcNumero = "aparcado"
    /\ salidaNumero = <<>>
    /\ entradaCedula = <<>>
    /\ pcCedula = "aparcado"
    /\ salidaCedula = "ninguno"

\* identity validation: validar_cedula is given any of the texts of Cedulas
InitCedula ==
    /\ entradaCedula \in Cedulas
    /\ pcCedula = "inicio"
    /\ salidaCedula = "ninguno"
    /\ secuencia = [c \in Campos |-> 1]
    /\ cache = [t \in Tipos |-> 0]
    /\ bloqueo = 0
    /\ pcSec = [p \in Llamadores |-> "libre"]
    /\ tipoSec = [p \in Llamadores |-> "01"]
    /\ nuevoSec = [p \in Llamadores |-> 0]
    /\ epocaSec = [p \in Llamadores |-> 0]
    /\ registro = <<>>
    /\ inicialSec = [c \in Campos |-> 1]
    /\ reinicios = 0
    /\ entradaClave = [fecha_emision |-> <<>>]
    /\ reloj = 0
    /\ claveAcceso = <<>>
    /\ pcClave = "aparcado"
    /\ argsProc = [firmar |-> FALSE, enviar_sri |-> FALSE,
                   enviar_email |-> FALSE, ambiente |-> "1"]
    /\ pcProc = "aparcado"
    /\ resultado = ResultadoInicial
    /\ resultado_sri = Nulo
    /\ guionAut = <<>>
    /\ intento = 0
    /\ ultimo_error = "None"
    /\ esperas = <<>>
    /\ xmlEnviado = <<>>
    /\ consultasAut = 0
    /\ pdfGenerado = FALSE
    /\ emailDespachado = FALSE
    /\ invocaciones = [recepcion |-> <<>>, autorizacion |-> <<>>]
    /\ wsdl = "no"
    /\ certificadoUsado = "ninguno"
    /\ ventaProc = 1
    /\ corridas = <<>>
    /\ pcVenta = [p \in 1..NumPeticiones |-> "aparcado"]
    /\ peticion = [p \in 1..NumPeticiones |-> 0]
    /\ ventas = <<>>
    /\ idVenta = 1
    /\ stock = [r \in Repuestos |-> 0]
    /\ detalles = <<>>
    /\ entradaCert = [existe |-> FALSE]
    /\ pcCert = "aparcado"
    /\ salidaCert = [error |-> "ninguno", firmante |-> FALSE]
    /\ entradaXml = [ruc |-> <<>>]
    /\ pcXml = "aparcado"
    /\ salidaXml = [excepcion |-> FALSE]
    /\ documento = [estado_sri |-> "pendiente", clave_acceso |-> <<>>]
    /\ entradaNumero = [establecimiento |-> <<>>]
    /\ pcNumero = "aparcado"
    /\ salidaNumero = <<>>
    /\ entradaXsd = [bien_formado |-> FALSE]
    /\ pcXsd = "aparcado"
    /\ salidaXsd = [ok |-> FALSE, errores |-> <<>>]

SpecSec == InitSec /\ [][NextSec]_vars

SpecClave == InitClave /\ [][NextClave]_vars

SpecProc == InitProc /\ [][NextProc]_vars

SpecReproc == InitReproc /\ [][NextReproc]_vars

SpecVenta == InitVenta /\ [][NextVenta]_vars

SpecCert == InitCert /\ [][NextCert]_vars

SpecXml == InitXml /\ [][NextXml]_vars

SpecNumero == InitNumero /\ [][NextNumero]_vars

SpecXsd == InitXsd /\ [][NextXsd]_vars

SpecCedula == InitCedula /\ [][NextCedula]_vars

\* the steps of a SOAP operation inside _reintentar
PasoReintentar ==
    \/ \E e \in ErroresTransporte : reintentar_espera(e)
    \/ \E e \in ErroresTransporte : reintentar_agotado(e)
    \/ reintentar_otro_error
    \/ \E r \in RespuestasRecepcion : recepcion_respuesta(r)
    \/ autorizacion_respuesta

\* every SOAP attempt answers, raises or times out (Transport timeout,
\* sri_ws.py line 148) and time.sleep returns: a step of _reintentar that
\* can be taken is taken
SpecReintentar ==
    InitReintentar /\ [][NextProc]_vars /\ WF_vars(PasoReintentar)

----------------------------------------------------------------------------
(* Properties of the sequential allocator, checked under SpecSec *)

Registrados == 1..Len(registro)

\* two completed calls that no reset separates
MismaEpoca(i, j) ==
    /\ registro[i].epocaInicio = registro[i].epocaFin
    /\ registro[j].epocaInicio = registro[j].epocaFin
    /\ registro[i].epocaFin = registro[j].epocaFin

\* C1: the values returned for one (configuration, doc type) with no reset
\* in between are pairwise distinct and strictly increasing in the order in
\* which the calls complete.
C1_EstrictamenteCreciente ==
    \A i, j \in Registrados :
        (/\ i < j
         /\ registro[i].tipo = registro[j].tipo
         /\ registro[i].ok /\ registro[j].ok
         /\ MismaEpoca(i, j))
        => registro[i].valor < registro[j].valor

\* C2: every call that returns a value has taken the row lock and has raised
\* the stored counter of its doc type by exactly 1, cache entry or not.
C2_SiempreIncrementa ==
    \A i \in Registrados :
        registro[i].ok =>
            /\ registro[i].incremento
            /\ registro[i].despues = registro[i].antes + 1

\* the values returned so far for a doc type
Devueltos(t) ==
    { registro[i].valor : i \in { k \in Registrados :
                                    registro[k].tipo = t /\ registro[k].ok } }

\* the number of calls for a doc type that returned a value
NumLlamadasDe(t) ==
    Cardinality({ k \in Registrados : registro[k].tipo = t /\ registro[k].ok })

\* C3: from a counter holding 1, n allocations of one doc type return exactly
\* {1..n}; each returns the value the counter held before its increment and
\* leaves the counter at that value plus 1.
C3_DevuelveUnoAN ==
    \A t \in Tipos :
        (/\ inicialSec[_get_campo_secuencial(t)] = 1
         /\ reinicios = 0
         /\ EnCurso = 0)
        => /\ Devueltos(t) = 1..NumLlamadasDe(t)
           /\ \A i \in Registrados :
                 (registro[i].tipo = t /\ registro[i].ok) =>
                    /\ registro[i].valor = registro[i].antes
                    /\ registro[i].despues = registro[i].valor + 1

\* C4: every value returned lies in [1, 999999999]; a call made when no value
\* of that range is left fails, and a failed call leaves the stored counter
\* and the cache as they were.
C4_DentroDelRango ==
    \A i \in Registrados :
        /\ registro[i].ok =>
              (registro[i].valor >= MIN_SECUENCIAL
               /\ registro[i].valor <= MAX_SECUENCIAL)
        /\ registro[i].antes > MAX_SECUENCIAL => ~registro[i].ok
        /\ ~registro[i].ok =>
              (registro[i].despues = registro[i].antes
               /\ registro[i].cacheDespues = registro[i].cacheAntes)

----------------------------------------------------------------------------
(* Properties of the access key, checked under SpecClave *)

\* weight of the k-th digit counted from the right, k = 1, 2, ...
PesoMod11(k) == 2 + ((k - 1) % 8)

RECURSIVE SumaPonderada(_, _)
SumaPonderada(s, k) ==
    IF k > Len(s) THEN 0
    ELSE int_char(s[Len(s) + 1 - k]) * PesoMod11(k) + SumaPonderada(s, k + 1)

\* 11 minus (sum mod 11), before the 11 -> 0 and 10 -> 1 mapping
CrudoMod11(s) == 11 - (SumaPonderada(s, 1) % 11)

DigitoMod11(s) ==
    LET crudo == CrudoMod11(s)
    IN  IF crudo = 11 THEN "0" ELSE IF crudo = 10 THEN "1" ELSE str_digito(crudo)

\* C5: for every well-formed input and every clock value the key has exactly
\* 49 decimal digits and its last digit is the modulus-11 check digit of the
\* first 48 (weights 2..9 from the right, 11 - sum mod 11, 11 -> 0, 10 -> 1).
C5_ClaveMod11 ==
    pcClave = "hecho" =>
        /\ Len(claveAcceso) = 49
        /\ \A i \in 1..Len(claveAcceso) : claveAcceso[i] \in Digitos
        /\ claveAcceso[49] = DigitoMod11(SubSeq(claveAcceso, 1, 48))

\* a key whose raw check value is 10, built from a clock fraction that
\* needed padding
C5_Testigo ==
    /\ pcClave = "hecho"
    /\ Len(claveAcceso) = 49
    /\ CrudoMod11(SubSeq(claveAcceso, 1, 48)) = 10
    /\ claveAcceso[49] = "1"
    /\ reloj = 5

----------------------------------------------------------------------------
(* Properties of the orchestrator, checked under SpecProc *)

\* procesar_factura has returned
Terminado == pcProc = "fin"

\* the document states of the claims; EstadoProcesamiento spells them
\* "autorizado" and "devuelto", procesar_comprobante "AUTORIZADA", "DEVUELTO"
EsAutorizado(estado) == estado \in {"autorizado", "AUTORIZADA"}
EsDevuelto(estado) == estado \in {"devuelto", "DEVUELTO"}

\* reception answered with this state in the run
RecepcionRespondio(estado) ==
    /\ ~resultado_sri.nulo
    /\ ~resultado_sri.recepcion.nulo
    /\ resultado_sri.recepcion.estado = estado

\* the answer the last authorization query got
UltimaRespuestaAut ==
    guionAut[IF consultasAut > Len(guionAut) THEN Len(guionAut)
             ELSE consultasAut]

AutorizacionRespondio(txt) ==
    /\ consultasAut >= 1
    /\ ~resultado_sri.autorizacion.nulo
    /\ UltimaRespuestaAut.hay
    /\ UltimaRespuestaAut.estado = txt

\* C6: reception RECIBIDA and authorization AUTORIZADO, with enviar_sri on,
\* end with the document AUTHORIZED, success = true and the authorization
\* number and date the SRI returned.
C6_AutorizadoTermina ==
    (/\ Terminado
     /\ argsProc.enviar_sri
     /\ RecepcionRespondio(RECIBIDA)
     /\ AutorizacionRespondio(TxtAutorizado))
    => /\ EsAutorizado(resultado.estado)
       /\ resultado.success
       /\ resultado.numero_autorizacion = UltimaRespuestaAut.numeroAutorizacion
       /\ resultado.fecha_autorizacion = UltimaRespuestaAut.fechaAutorizacion

\* C7: an authorization answer NO AUTORIZADO for a received comprobante ends
\* the document in RETURNED, and it is never reported as AUTHORIZED.
C7_NoAutorizadoDevuelto ==
    (/\ Terminado
     /\ RecepcionRespondio(RECIBIDA)
     /\ AutorizacionRespondio(TxtNoAutorizado))
    => /\ EsDevuelto(resultado.estado)
       /\ ~EsAutorizado(resultado.estado)
       /\ ~resultado.success

\* C8: a reception answer DEVUELTA ends the document in RETURNED with an
\* empty authorization number.
C8_DevueltaDevuelto ==
    (Terminado /\ RecepcionRespondio(DEVUELTA))
    => /\ EsDevuelto(resultado.estado)
       /\ resultado.numero_autorizacion = ""

\* C9: a PDF is generated and an email is dispatched only for a document in
\* the AUTHORIZED state.
C9_PdfSoloAutorizado ==
    (pdfGenerado \/ emailDespachado) => EsAutorizado(resultado.estado)

\* C10: after RECIBIDA, an EN PROCESO answer is followed by another query
\* until a terminal answer; two EN PROCESO and then AUTORIZADO end AUTHORIZED
\* with the number returned, after at most 3 queries.
C10_SondeoAutorizacion ==
    (/\ Terminado
     /\ RecepcionRespondio(RECIBIDA)
     /\ consultasAut >= 1
     /\ ~resultado_sri.autorizacion.nulo)
    => /\ (UltimaRespuestaAut.hay /\ UltimaRespuestaAut.estado = TxtEnProceso)
            => consultasAut > 1
       /\ guionAut = <<RespEnProceso, RespEnProceso, RespAutorizado>>
            => /\ EsAutorizado(resultado.estado)
               /\ resultado.numero_autorizacion = "N-001"
               /\ consultasAut <= 3

----------------------------------------------------------------------------
(* Properties of repeated procesar_factura calls, checked under SpecReproc *)

\* the sequential an access key carries: its digits 31 to 39
SecuencialDeClave(clave) == int_str(SubSeq(clave, 31, 39))

\* the sequential a formatted number carries: what follows "001-001-"
SecuencialDeNumero(numero) == int_str(SubSeq(numero, 9, Len(numero)))

\* the current call has built its XML and access key
ConClave == resultado.clave_acceso # <<>>

\* the earlier calls that built an access key
CorridasConClave ==
    { i \in 1..Len(corridas) : corridas[i].clave_acceso # <<>> }

\* C11: a second procesar_factura on the same sale and configuration leaves
\* the document with the same access key, the same sequential and the same
\* state as the first one did.
C11_Idempotente ==
    \A i \in CorridasConClave :
        (corridas[i].venta = ventaProc /\ ConClave) =>
            /\ resultado.clave_acceso = corridas[i].clave_acceso
            /\ SecuencialDeClave(resultado.clave_acceso)
                 = SecuencialDeClave(corridas[i].clave_acceso)
            /\ resultado.numero_factura = corridas[i].numero_factura
            /\ Terminado => resultado.estado = corridas[i].estado

\* C12: once a call has left the document AUTHORIZED, a further call on the
\* same sale contacts no SRI service and changes none of access key,
\* sequential and state.
C12_AutorizadoSinEfecto ==
    \A i \in CorridasConClave :
        (corridas[i].venta = ventaProc /\ EsAutorizado(corridas[i].estado)) =>
            /\ wsdl = "no"
            /\ invocaciones = [recepcion |-> <<>>, autorizacion |-> <<>>]
            /\ ConClave =>
                  /\ resultado.clave_acceso = corridas[i].clave_acceso
                  /\ resultado.numero_factura = corridas[i].numero_factura
            /\ Terminado => resultado.estado = corridas[i].estado

\* C13: two invoices the pipeline builds for the same emitter and emission
\* point carry different sequentials in access key and formatted number,
\* the later one strictly greater, whatever the outcome of the earlier.
C13_SecuencialesDistintos ==
    \A i \in CorridasConClave :
        (corridas[i].venta # ventaProc /\ ConClave) =>
            /\ SecuencialDeClave(corridas[i].clave_acceso)
                 < SecuencialDeClave(resultado.clave_acceso)
            /\ SecuencialDeNumero(corridas[i].numero_factura)
                 < SecuencialDeNumero(resultado.numero_factura)

----------------------------------------------------------------------------
(* Properties of sale creation, checked under SpecVenta *)

\* the committed sales for which the XML builder returned
VentasConXml ==
    { i \in 1..Len(ventas) : ventas[i].xml_secuencial # <<>> }

C15_SinDuplicados ==
    /\ \A p, q \in Peticiones :
          (/\ p # q
           /\ peticion[p].secuencial # 0 /\ peticion[p].salida # "error"
           /\ peticion[q].secuencial # 0 /\ peticion[q].salida # "error")
          => peticion[p].secuencial # peticion[q].secuencial
    /\ \A i, j \in 1..Len(ventas) :
          i < j =>
              /\ ventas[i].secuencia_factura # ventas[j].secuencia_factura
              /\ ventas[i].numero_factura # ventas[j].numero_factura

----------------------------------------------------------------------------
(* Properties of one procesar_factura call: validation, signing, sending *)

\* x in lista
EnLista(x, lista) == \E i \in 1..Len(lista) : lista[i] = x

SinInvocaciones == [recepcion |-> <<>>, autorizacion |-> <<>>]

\* no SRI service was contacted in the call
SinContactoSri ==
    /\ wsdl = "no"
    /\ invocaciones = SinInvocaciones
    /\ xmlEnviado = <<>>
    /\ consultasAut = 0
    /\ resultado_sri = Nulo

\* the document ended FAILED (EstadoProcesamiento.ERROR)
EsFallido(estado) == estado \in {"error", "ERROR"}

\* XSD validation of the built XML failed in this call
XsdFallo == EnLista("error XSD", resultado.errores)

\* signing was requested and _firmar_xml raised
FirmaFallo == certificadoUsado \notin (CertificadosQueFirman \cup {"ninguno"})

\* C16: when XSD validation fails, the test environment ("1") goes on to
\* signing and sending; production ("2") ends FAILED without signing and
\* without contacting the SRI.
C16_XsdSegunAmbiente ==
    XsdFallo =>
        IF argsProc.ambiente = "1"
        THEN pcProc # "xsd_invalido" =>
               /\ \/ pcProc = "firmar"
                  \/ IF argsProc.firmar THEN certificadoUsado # "ninguno"
                     ELSE resultado.xml_firmado = resultado.xml
               /\ (/\ argsProc.enviar_sri /\ ~FirmaFallo
                   /\ pcProc \notin {"firmar", "crear_cliente"})
                  => wsdl # "no"
        ELSE /\ pcProc \in {"xsd_invalido", "fin"}
             /\ certificadoUsado = "ninguno"
             /\ resultado.xml_firmado = ""
             /\ SinContactoSri
             /\ Terminado =>
                   /\ EsFallido(resultado.estado)
                   /\ ~resultado.success
                   /\ EnLista("Validacion XSD fallo", resultado.errores)

\* an XML that failed validation in the test environment was signed and
\* handed to validarComprobante
C16_Testigo ==
    /\ XsdFallo
    /\ argsProc.ambiente = "1"
    /\ certificadoUsado = "valido"
    /\ xmlEnviado = <<"xml_firmado">>
    /\ Terminado

\* C17: when signing is requested and fails, whatever the reason, the
\* document ends FAILED with the error recorded and no SRI service is
\* contacted in that call.
C17_FirmaFallidaTermina ==
    FirmaFallo =>
        /\ Terminado
        /\ EsFallido(resultado.estado)
        /\ ~resultado.success
        /\ EnLista("Error al firmar", resultado.errores)
        /\ resultado.xml_firmado = ""
        /\ SinContactoSri

\* an expired certificate in a call that was to be sent to the SRI
C17_Testigo ==
    /\ certificadoUsado = "vencido"
    /\ argsProc.firmar /\ argsProc.enviar_sri
    /\ Terminado
    /\ resultado.estado = "error"

----------------------------------------------------------------------------
(* Properties of SRIWebService._reintentar *)

OperacionesSoap == {"recepcion", "autorizacion"}

\* all the attempts of the operation failed in transport
Agotado(op) ==
    /\ Len(invocaciones[op]) = MAX_REINTENTOS
    /\ invocaciones[op][MAX_REINTENTOS].resultado \in ErroresTransporte

\* the attempts of one operation follow the retry policy
PoliticaReintentos(inv) ==
    /\ Len(inv) <= MAX_REINTENTOS
    /\ \A k \in 1..Len(inv) :
          /\ k < Len(inv) => inv[k].resultado \in ErroresTransporte
          /\ inv[k].resultado \in ErroresTransporte =>
                inv[k].espera =
                    IF k < MAX_REINTENTOS THEN RETRY_DELAY * k ELSE 0
          /\ inv[k].resultado \notin ErroresTransporte =>
                (k = Len(inv) /\ inv[k].espera = 0)

\* the operation returned or raised: nothing is attempted after an answer,
\* after an error that is not a transport error, or after the N-th failure
Concluida(op) ==
    /\ Len(invocaciones[op]) > 0
    /\ \/ invocaciones[op][Len(invocaciones[op])].resultado
            \notin ErroresTransporte
       \/ Agotado(op)

\* C18: _reintentar makes at most N attempts and always terminates; it
\* returns the first answer, retries only after a transport error, sleeps
\* 2*k seconds after the k-th failure but not after the last, and lets any
\* other error surface at once.
C18_Reintentar ==
    /\ [](/\ PoliticaReintentos(invocaciones.recepcion)
          /\ PoliticaReintentos(invocaciones.autorizacion)
          /\ Concluida("recepcion") => pcProc # "recepcion"
          /\ Concluida("autorizacion") => pcProc # "autorizacion")
    /\ <>[](pcProc \notin OperacionesSoap)

\* reception failed three times in transport, with sleeps of 2 and 4 seconds
C18_Testigo ==
    /\ Len(invocaciones.recepcion) = 3
    /\ invocaciones.recepcion[1] = Invocacion("socket.timeout", 2)
    /\ invocaciones.recepcion[2] = Invocacion("requests.ConnectionError", 4)
    /\ invocaciones.recepcion[3] = Invocacion("requests.Timeout", 0)
    /\ esperas = <<2, 4>>

\* C19: when all N attempts fail, a last failure that was a timeout (socket
\* or HTTP client) surfaces as ErrorTimeoutSRI and a last failure that was
\* a connection error surfaces as ErrorConexionSRI.
C19_TipoDeError ==
    \A op \in OperacionesSoap :
        (Agotado(op) /\ ~resultado_sri.nulo) =>
            LET ultimo == invocaciones[op][MAX_REINTENTOS].resultado
            IN  resultado_sri.errores =
                    IF ultimo \in {"socket.timeout", "requests.Timeout"}
                    THEN <<"ErrorTimeoutSRI">>
                    ELSE <<"ErrorConexionSRI">>

\* the state the document had reached before the SRI was called
EstadoAntesDelEnvio == IF argsProc.firmar THEN "firmado" ELSE "validado"

\* C20: when the SRI call fails in transport after the retries, the
\* document keeps the state it had before the call, the error is recorded
\* and the outcome is not an error or terminal state.
C20_ErrorReintentable ==
    (Terminado /\ \E op \in OperacionesSoap : Agotado(op)) =>
        /\ resultado.estado = EstadoAntesDelEnvio
        /\ ~EsFallido(resultado.estado)
        /\ \/ EnLista("ErrorTimeoutSRI", resultado.errores)
           \/ EnLista("ErrorConexionSRI", resultado.errores)

----------------------------------------------------------------------------
(* Properties of steps 5 and 6 of procesar_factura and of its result *)

\* what the result says of the document's authorization
DatosAutorizacion(res) ==
    <<res.estado, res.numero_autorizacion, res.fecha_autorizacion,
      res.xml_autorizado>>

\* C21: the PDF step and the email step, failing or not, leave the state,
\* the authorization number, date and XML, the errors and the success flag
\* of the result as they were, and the success flag set afterwards depends
\* on the state alone: an AUTHORIZED document stays AUTHORIZED.
C21_PdfEmailNoDegradan ==
    [][/\ pcProc \in {"pdf", "email"} =>
             /\ DatosAutorizacion(resultado') = DatosAutorizacion(resultado)
             /\ resultado'.success = resultado.success
             /\ resultado'.errores = resultado.errores
             /\ pcProc' \in {"email", "exito"}
       /\ pcProc = "exito" =>
             /\ DatosAutorizacion(resultado') = DatosAutorizacion(resultado)
             /\ resultado'.success = (resultado.estado = "autorizado")]_vars

\* an authorized document whose PDF could not be generated
C21_Testigo ==
    /\ Terminado
    /\ resultado.estado = "autorizado"
    /\ resultado.success
    /\ resultado.numero_autorizacion = Une(resultado.clave_acceso)
    /\ ~resultado.pdf
    /\ EnLista("PDF no generado", resultado.mensajes)

\* step 6 ran: enviar_email was asked for and a PDF exists (line 230)
PasoEmailHecho ==
    /\ pcProc \in {"exito", "fin"}
    /\ argsProc.enviar_email
    /\ resultado.pdf

\* C22: when step 6 runs and the email does not leave (no address, SMTP not
\* configured, send error), the messages of the result record the failure
\* and do not say "Email enviado".
C22_EmailFallidoRegistrado ==
    (PasoEmailHecho /\ ~emailDespachado) =>
        /\ ~EnLista("Email enviado", resultado.mensajes)
        /\ EnLista("Email no enviado", resultado.mensajes)

\* C23: whenever the result of procesar_factura says AUTHORIZED, its access
\* key, authorization number, authorization date and authorized XML are all
\* non-empty.
C23_AutorizadoCompleto ==
    (Terminado /\ EsAutorizado(resultado.estado)) =>
        /\ resultado.clave_acceso # <<>>
        /\ resultado.numero_autorizacion # ""
        /\ resultado.fecha_autorizacion # ""
        /\ resultado.xml_autorizado # ""

\* the document state a value of resultado["estado"] stands for; both the
\* spelling of EstadoProcesamiento and that of procesar_comprobante count
NombreEstado(estado) ==
    CASE estado = "pendiente" -> "PENDING"
      [] estado = "xml_generado" -> "XML_BUILT"
      [] estado = "validado" -> "VALIDATED"
      [] estado = "firmado" -> "SIGNED"
      [] estado = "enviado_sri" -> "RECEIVED"
      [] EsAutorizado(estado) -> "AUTHORIZED"
      [] EsDevuelto(estado) -> "RETURNED"
      [] EsFallido(estado) -> "FAILED"
      [] OTHER -> "ninguno"

EstadosTerminales == {"AUTHORIZED", "RETURNED", "FAILED"}

\* the edges of the document state machine: build, validate, sign,
\* reception (of the signed XML, or of the validated one when signing is
\* off), its DEVUELTA branch, authorization, and any-stage-error.  Every
\* edge leads forward, so a path along them enters no state twice.
Aristas ==
    { <<"PENDING", "XML_BUILT">>, <<"XML_BUILT", "VALIDATED">>,
      <<"VALIDATED", "SIGNED">>, <<"SIGNED", "RECEIVED">>,
      <<"VALIDATED", "RECEIVED">>, <<"SIGNED", "RETURNED">>,
      <<"VALIDATED", "RETURNED">>, <<"RECEIVED", "AUTHORIZED">>,
      <<"RECEIVED", "RETURNED">> }
    \cup { <<e, "FAILED">> :
              e \in {"PENDING", "XML_BUILT", "VALIDATED", "SIGNED",
                     "RECEIVED"} }

\* C24: at every point of procesar_factura the state of the result is one
\* of the eight document states, and every change of state follows an edge
\* of the state machine, so no state is entered again after it was left.
C24_MaquinaDeEstados ==
    /\ [](NombreEstado(resultado.estado) # "ninguno")
    /\ [][resultado'.estado # resultado.estado =>
             <<NombreEstado(resultado.estado), NombreEstado(resultado'.estado)>>
                 \in Aristas]_vars

\* every message of the list appears in the errors or messages of the result
MensajesConservados(mensajes_sri) ==
    \A i \in 1..Len(mensajes_sri) :
        \/ EnLista(mensajes_sri[i], resultado.errores)
        \/ EnLista(mensajes_sri[i], resultado.mensajes)

\* C25: when reception answers DEVUELTA or authorization answers NO
\* AUTORIZADO, every message the SRI attached to that answer appears in the
\* errors or messages of the result of procesar_factura.
C25_MensajesSriConservados ==
    Terminado =>
        /\ RecepcionRespondio(DEVUELTA) =>
              MensajesConservados(resultado_sri.recepcion.mensajes)
        /\ (RecepcionRespondio(RECIBIDA)
            /\ AutorizacionRespondio(TxtNoAutorizado)) =>
              MensajesConservados(UltimaRespuestaAut.mensajes)

\* the last authorization query was answered EN PROCESO: the SRI said so or
\* sent no autorizacion at all (the default of line 408)
AutorizacionEnProceso ==
    /\ consultasAut >= 1
    /\ ~resultado_sri.autorizacion.nulo
    /\ \/ ~UltimaRespuestaAut.hay
       \/ UltimaRespuestaAut.estado = TxtEnProceso

\* C26: when the authorization is still EN PROCESO at the end of the call,
\* the document is left RECEIVED (enviado_sri), not failed, returned or
\* authorized, and the call does not report success.
C26_EnProcesoQuedaRecibido ==
    (Terminado /\ RecepcionRespondio(RECIBIDA) /\ AutorizacionEnProceso) =>
        /\ resultado.estado = "enviado_sri"
        /\ NombreEstado(resultado.estado) \notin EstadosTerminales
        /\ ~resultado.success

----------------------------------------------------------------------------
(* Properties of certificate loading, checked under SpecCert *)

\* the validity of the certificate ended before the call
CertificadoVencido == Antes(entradaCert.cert.vence, entradaCert.ahora)

\* the .p12 exists, opens with the password and holds key and certificate
P12Legible ==
    /\ entradaCert.existe
    /\ entradaCert.clave = "clave"
    /\ entradaCert.privada
    /\ entradaCert.extrae

\* C27: loading a PKCS#12 whose certificate has its notAfter in the past
\* always fails with CertificadoVencidoError, an error kind of its own, and
\* never gives the caller a signer.
C27_VencidoSiempreFalla ==
    (pcCert = "fin" /\ P12Legible /\ CertificadoVencido) =>
        /\ salidaCert.error = "CertificadoVencidoError"
        /\ ~salidaCert.firmante

----------------------------------------------------------------------------
(* Properties of the XML builder, checked under SpecXml *)

\* the buyer is identified by a cedula that validar_cedula does not accept
CedulaInvalida ==
    /\ entradaXml.cliente.hay
    /\ entradaXml.cliente.tipo_identificacion = "cedula"
    /\ entradaXml.cliente.cedula # <<>>
    /\ ~validar_cedula(entradaXml.cliente.cedula)

\* C28: for a sale whose emitter RUC is not 13 decimal digits, or whose
\* buyer cedula fails validar_cedula, generar_xml_factura raises: it returns
\* no XML, no access key and no number.
C28_IdentidadInvalidaRechazada ==
    (pcXml = "hecho" /\ (~validar_ruc(entradaXml.ruc) \/ CedulaInvalida)) =>
        salidaXml.excepcion

\* the amount in cents a text written with Formato2f stands for
CentavosDe(texto) ==
    LET negativo == texto[1] = "-"
        cifras == IF negativo THEN Tail(texto) ELSE texto
        n == Len(cifras)
        valor == int_str(SubSeq(cifras, 1, n - 3)) * 100
                 + int_str(SubSeq(cifras, n - 1, n))
    IN  IF negativo THEN 0 - valor ELSE valor

\* the sum of a field over the totalImpuesto blocks of an XML, in cents
RECURSIVE SumaBloques(_, _)
SumaBloques(bloques, campo) ==
    IF bloques = <<>> THEN 0
    ELSE CentavosDe(Head(bloques)[campo]) + SumaBloques(Tail(bloques), campo)

Abs(x) == IF x < 0 THEN 0 - x ELSE x

\* importeTotal against bases + taxes - totalDescuento, all read from the XML
Descuadre(xml, bases) ==
    Abs(CentavosDe(xml.importeTotal)
        - (bases + SumaBloques(xml.totalImpuesto, "valor")
           - CentavosDe(xml.totalDescuento)))

\* C29: in every XML generar_xml_factura builds, importeTotal differs by at
\* most one cent from the sum of the tax bases plus the sum of the taxes
\* minus totalDescuento of that XML, the tax bases being the baseImponible
\* of the totalImpuesto blocks or, failing that, totalSinImpuestos.
C29_ImporteTotalCuadra ==
    (pcXml = "hecho" /\ ~salidaXml.excepcion) =>
        \/ Descuadre(salidaXml.xml,
                     SumaBloques(salidaXml.xml.totalImpuesto,
                                 "baseImponible")) <= 1
        \/ Descuadre(salidaXml.xml,
                     CentavosDe(salidaXml.xml.totalSinImpuestos)) <= 1

----------------------------------------------------------------------------
(* Properties of the reset of the allocator, checked under SpecSec *)

\* the values reiniciar_secuencial is called with
ValoresReinicio == {1, 5}

\* the step is a successful reiniciar_secuencial(config, t, v)
ReinicioDe(t, v) ==
    /\ reinicios' = reinicios + 1
    /\ secuencia' = [secuencia EXCEPT ![_get_campo_secuencial(t)] = v]

\* C30: a successful reiniciar_secuencial(config, t, v) with v >= 1 leaves the
\* stored counter of t equal to v and no cache entry for t, and every
\* allocation that starts after a reset returns the counter stored when it
\* completes, never a value that was cached before the reset.
C30_ReinicioLimpiaCache ==
    /\ [][reinicios' = reinicios + 1 =>
            \E t \in Tipos, v \in ValoresReinicio :
                /\ v >= 1
                /\ ReinicioDe(t, v)
                /\ secuencia'[_get_campo_secuencial(t)] = v
                /\ cache'[t] = 0]_vars
    /\ [](\A i \in 1..Len(registro) :
            (registro[i].ok /\ registro[i].epocaInicio >= 1) =>
                /\ registro[i].valor = registro[i].despues
                /\ registro[i].viaCache =>
                       registro[i].cacheAntes = registro[i].antes)

\* an allocation cached its value, the counter was reset, and a later
\* allocation of the same type went to the database and returned another value
C30_Testigo ==
    \E i, j \in 1..Len(registro) :
        /\ i < j
        /\ registro[i].tipo = registro[j].tipo
        /\ registro[i].ok /\ ~registro[i].viaCache
        /\ registro[i].epocaFin = 0
        /\ registro[i].cacheDespues = registro[i].valor
        /\ registro[j].ok /\ ~registro[j].viaCache
        /\ registro[j].epocaInicio >= 1
        /\ registro[j].valor # registro[i].valor

----------------------------------------------------------------------------
(* Properties of the stored document, checked under SpecProc *)

\* a stage of the run has succeeded and left its state in resultado
EtapaCumplida ==
    resultado.estado \in {"xml_generado", "validado", "firmado", "autorizado"}

\* C31: after each successful stage of procesar_factura the stored document
\* carries the state and the access key that stage produced, before the next
\* stage runs, so that an interrupted run can resume from the stored state.
C31_PersistidoPorEtapa ==
    EtapaCumplida =>
        /\ documento.estado_sri = resultado.estado
        /\ documento.clave_acceso = resultado.clave_acceso

----------------------------------------------------------------------------
(* Properties of the stored sales and of the stock, checked under SpecVenta *)

\* Venta.estado_sri values of a document in a terminal state
EstadosSriTerminales == {"autorizado", "devuelto", "error"}

\* the SRI data of a stored sale
DatosSri(venta) ==
    <<venta.estado_sri, venta.clave_acceso, venta.secuencia_factura,
      venta.numero_factura, venta.xml_secuencial, venta.xml_numero_factura>>

RechazoPorStock(p) ==
    /\ pcVenta[p] = "item"
    /\ pcVenta'[p] = "fin"
    /\ peticion'[p].salida = "stock"

\* C40: a sale crear_venta refuses for insufficient stock of one of its items
\* leaves the stock of every repuesto as it was and no sale or sale line
\* behind, wherever the failing item stands in the list.
C40_RechazoSinRastro ==
    [][\A p \in Peticiones :
          RechazoPorStock(p) =>
              /\ stock' = stock
              /\ ventas' = ventas
              /\ detalles' = detalles]_vars

----------------------------------------------------------------------------
(* Properties of the layout of the access key, checked under SpecClave *)

\* the nine decimal digits of n, most significant first
NueveDigitos(n) == [i \in 1..9 |-> str_digito((n \div (10 ^ (9 - i))) % 10)]

\* the first 40 characters the layout prescribes for the call's arguments
Cabecera40 ==
    SubSeq(entradaClave.fecha_emision, 1, 2)
    \o SubSeq(entradaClave.fecha_emision, 4, 5)
    \o SubSeq(entradaClave.fecha_emision, 7, 10)
    \o entradaClave.tipo_comprobante \o entradaClave.ruc
    \o entradaClave.ambiente \o entradaClave.establecimiento
    \o entradaClave.punto_emision \o NueveDigitos(entradaClave.secuencial)
    \o entradaClave.tipo_emision

\* C33: the first 40 digits of a generated access key are the emission date
\* as DDMMYYYY, the document type, the RUC, the environment, the
\* establishment, the emission point, the sequential zero-padded to 9 digits
\* and the emission mode, in that order; 8 decimal digits and the check
\* digit follow.
C33_DisposicionClave ==
    pcClave = "hecho" =>
        /\ Len(Cabecera40) = 40
        /\ Len(claveAcceso) = 49
        /\ SubSeq(claveAcceso, 1, 40) = Cabecera40
        /\ \A i \in 41..48 : claveAcceso[i] \in Digitos
        /\ claveAcceso[49] = DigitoMod11(SubSeq(claveAcceso, 1, 48))

\* a key for sequential 42, which needs seven zeros of padding, and for a
\* document type and an establishment other than the usual 01 and 001
C33_Testigo ==
    /\ pcClave = "hecho"
    /\ entradaClave.secuencial = 42
    /\ SubSeq(claveAcceso, 31, 39) = <<"0","0","0","0","0","0","0","4","2">>
    /\ SubSeq(claveAcceso, 9, 10) = <<"0","4">>
    /\ SubSeq(claveAcceso, 25, 27) = <<"9","9","9">>

----------------------------------------------------------------------------
(* Properties of the formatted number, checked under SpecNumero *)

\* the formatter the call went through, applied to a triple
Formatear(establecimiento, punto_emision, secuencial) ==
    IF pcNumero = "hecho_gestor"
    THEN formatear_numero_comprobante(establecimiento, punto_emision, secuencial)
    ELSE formatear_numero_factura(establecimiento, punto_emision, secuencial)

\* the triple read back from a number EEE-PPP-SSSSSSSSS: the text before the
\* first hyphen, the text between the hyphens and the integer after them
Analizar(numero) ==
    [establecimiento |-> SubSeq(numero, 1, 3),
     punto_emision |-> SubSeq(numero, 5, 7),
     secuencial |-> int_str(SubSeq(numero, 9, Len(numero)))]

----------------------------------------------------------------------------
(* Properties of the tax blocks of the XML, checked under SpecXml *)

\* the SRI rate code of an IVA rate
CodigoDeTarifa(tarifa) ==
    CASE tarifa = 0 -> "0"
      [] tarifa = 12 -> "2"
      [] tarifa = 14 -> "3"

\* the impuesto blocks of the lines of the built XML
ImpuestosDeLinea ==
    { salidaXml.xml.detalles[i].impuestos[1] :
          i \in 1..Len(salidaXml.xml.detalles) }

\* C35: in every built invoice each line's tax block has code "2" and the
\* rate code of the configured IVA rate ("0" for 0%, "2" for 12%, "3" for
\* 14%), which is also the rate code of the invoice's totalImpuesto block.
C35_CodigoPorcentajeDeLinea ==
    (pcXml = "hecho" /\ ~salidaXml.excepcion) =>
        \A imp \in ImpuestosDeLinea :
            /\ imp.codigo = "2"
            /\ imp.codigoPorcentaje = CodigoDeTarifa(entradaXml.iva_tarifa)
            /\ \A i \in 1..Len(salidaXml.xml.totalImpuesto) :
                   imp.codigoPorcentaje
                       = salidaXml.xml.totalImpuesto[i].codigoPorcentaje

----------------------------------------------------------------------------
(* Properties of the structural check, checked under SpecXsd *)

\* the info block that goes with each of the five root elements
BloqueDeTipo(raiz) ==
    CASE raiz = "factura" -> "infoFactura"
      [] raiz = "notaCredito" -> "infoNotaCredito"
      [] raiz = "notaDebito" -> "infoNotaDebito"
      [] raiz = "guiaRemision" -> "infoGuiaRemision"
      [] raiz = "comprobanteRetencion" -> "infoCompRetencion"

\* the document has one of the defects the structural check is to report
EstructuraDefectuosa ==
    \/ entradaXsd.raiz \notin RaicesConocidas
    \/ ~entradaXsd.info_tributaria.hay
    \/ \E i \in 1..Len(entradaXsd.info_tributaria.campos) :
           entradaXsd.info_tributaria.campos[i] # "texto"
    \/ /\ entradaXsd.raiz \in RaicesConocidas
       /\ BloqueDeTipo(entradaXsd.raiz) \notin entradaXsd.bloques

\* C36: with no schema loaded for the type, validar_xml reports an error
\* whenever the root is unknown, infoTributaria or one of its required
\* children is missing or empty, or the info block of the document's type
\* is missing, and it returns ok = true exactly when it reports no error.
C36_EstructuraBasica ==
    (pcXsd = "hecho" /\ entradaXsd.bien_formado
                    /\ entradaXsd.esquema = "None") =>
        /\ EstructuraDefectuosa => Len(salidaXsd.errores) > 0
        /\ salidaXsd.ok <=> Len(salidaXsd.errores) = 0

----------------------------------------------------------------------------
(* Properties of validar_cedula, checked under SpecCedula *)

\* the text is exactly ten decimal digits
DiezDecimales(c) == Len(c) = 10 /\ \A i \in 1..10 : c[i] \in Digitos

\* the value of a decimal digit character
ValorDigito(c) == CHOOSE d \in 0..9 : str_digito(d) = c

\* weight 2 on the odd positions, 1 on the even ones; a product above 9 is
\* reduced by 9
ProductoMod10(c, i) ==
    LET producto == ValorDigito(c[i]) * (IF i % 2 = 1 THEN 2 ELSE 1)
    IN  IF producto > 9 THEN producto - 9 ELSE producto

RECURSIVE SumaMod10(_, _)
SumaMod10(c, n) ==
    IF n = 0 THEN 0 ELSE SumaMod10(c, n - 1) + ProductoMod10(c, n)

\* the modulus-10 check digit of the first nine digits
DigitoMod10(c) == (10 - (SumaMod10(c, 9) % 10)) % 10

\* a ten-digit text with province 01..24, third digit at most 6 and the
\* right check digit
CedulaBienFormada(c) ==
    /\ 10 * ValorDigito(c[1]) + ValorDigito(c[2]) \in 1..24
    /\ ValorDigito(c[3]) <= 6
    /\ ValorDigito(c[10]) = DigitoMod10(c)

\* the example the tests call valid
CedulaDeLosTests == <<"1","7","1","2","3","4","5","6","7","8">>

\* C37: validar_cedula returns False for every text that is not exactly 10
\* decimal digits, returns True for a 10-digit text exactly when the
\* province is 01 to 24, the third digit is at most 6 and the tenth digit is
\* the modulus-10 check digit of the first nine, and accepts "1712345678".
C37_ValidarCedula ==
    pcCedula = "hecho" =>
        /\ ~DiezDecimales(entradaCedula) => salidaCedula = "False"
        /\ DiezDecimales(entradaCedula) =>
               /\ salidaCedula \in {"True", "False"}
               /\ salidaCedula = "True" <=> CedulaBienFormada(entradaCedula)
        /\ entradaCedula = CedulaDeLosTests => salidaCedula = "True"

----------------------------------------------------------------------------
(* Properties of procesar_comprobante and of the XML procesar_factura     *)
(* hands on, checked under SpecProc                                       *)

\* procesar_comprobante has called autorizacion_comprobante, or is about to
AutorizacionConsultada ==
    \/ pcProc = "autorizacion"
    \/ Len(invocaciones["autorizacion"]) > 0

\* C38: the authorization service is queried only after reception answered
\* RECIBIDA; for DEVUELTA, an unrecognised state or an error procesar_comprobante
\* makes no authorization query.
C38_AutorizacionSoloTrasRecibida ==
    AutorizacionConsultada => RecepcionRespondio(RECIBIDA)

\* the XML documents the run handed to reception or recorded as authorized
\* without an answer of the SRI
XmlEntregados ==
    { xmlEnviado[i] : i \in 1..Len(xmlEnviado) }
    \cup (IF ~argsProc.enviar_sri /\ resultado.xml_autorizado # ""
          THEN {resultado.xml_autorizado} ELSE {})

\* C39: the XML handed to SRI reception, and the XML recorded as authorized,
\* is the output of a successful signing in the same run, whatever firmar,
\* enviar_sri and the environment are.
C39_SoloXmlFirmado ==
    \A x \in XmlEntregados :
        /\ x = "xml_firmado"
        /\ certificadoUsado \in CertificadosQueFirman

====
